---- MODULE Spec2Model ----
(***************************************************************************)
(* Model of the window enforcement engine (core/window_monitor.py), the    *)
(* monitor topology service it reads (core/monitor_info.py) and the        *)
(* allow-list predicate it calls (core/whitelist.py).                      *)
(*                                                                         *)
(* Time is the wall clock in milliseconds.  One call of check_and_enforce  *)
(* is one step: every time.time() read inside one call yields `now`.       *)
(* EnumWindows reports the top-level windows in handle order and the       *)
(* deferred set is iterated in handle order.                               *)
(***************************************************************************)
EXTENDS Integers, Sequences, FiniteSets, TLC

VARIABLES
    enabled,                \* WindowMonitor.enabled
    protected_device_names, \* WindowMonitor.protected_device_names
    primary_device,         \* WindowMonitor.primary_device (always-allowed)
    whitelist,              \* Whitelist._whitelist
    custom_whitelist,       \* Whitelist._custom_whitelist
    stats,                  \* WindowMonitor.stats
    recently_moved,         \* WindowMonitor._recently_moved (MoveLedger)
    was_dragging,           \* WindowMonitor._was_dragging
    deferred_hwnds,         \* WindowMonitor._deferred_hwnds (DeferredSet)
    monitor_cache,          \* monitor_info._monitor_cache
    now,                    \* time.time(), in ms
    os,                     \* what the OS display queries report
    win,                    \* per window: visibility, title, class, process
    rect,                   \* per window: GetWindowRect
    moved_at,               \* history: time of each window's last move
                            \*          (defined for the windows moved so far)
    last                    \* history: what the last step did

vars == <<enabled, protected_device_names, primary_device, whitelist, custom_whitelist, stats,
          recently_moved, was_dragging, deferred_hwnds, monitor_cache, now,
          os, win, rect, moved_at, last>>

-----------------------------------------------------------------------------
(* Bounds of the model *)

MaxTime == 750

ClockSteps == {250, 500}

\* The handles of the top-level windows of the desktop.
Hwnds == {101, 102}

(* Program constants *)

MOVE_DEBOUNCE_MS == 500
CACHE_DURATION_MS == 5000
PADDING == 20

None == "None"

DEFAULT_WHITELIST == {"POWERPNT.EXE", "OBS64.EXE", "OBS32.EXE"}
SYSTEM_CLASSES == {"Shell_TrayWnd", "Progman", "WorkerW"}

D1 == "\\\\.\\DISPLAY1"
D2 == "\\\\.\\DISPLAY2"
D3 == "\\\\.\\DISPLAY3"

-----------------------------------------------------------------------------
(* Strings: str.upper() and str.strip() on the names that occur *)

Upper(s) ==
    CASE s = "notepad.exe" -> "NOTEPAD.EXE"
      [] s = "obs64.exe" -> "OBS64.EXE"
      [] s = "Taskmgr.exe" -> "TASKMGR.EXE"
      [] s = "explorer.exe" -> "EXPLORER.EXE"
      [] s = " notepad.exe " -> " NOTEPAD.EXE "
      [] s = "zoom.exe" -> "ZOOM.EXE"
      [] s = "Zoom.exe" -> "ZOOM.EXE"
      [] OTHER -> s

Strip(s) ==
    CASE s = " NOTEPAD.EXE " -> "NOTEPAD.EXE"
      [] s = " notepad.exe " -> "notepad.exe"
      [] OTHER -> s

-----------------------------------------------------------------------------
(* The displays the OS can report *)

Mon(dev, prim, rc, work) ==
    [device_name |-> dev, is_primary |-> prim, rc_monitor |-> rc, rc_work |-> work]

MonPrimary == Mon(D1, TRUE, <<0, 0, 1920, 1080>>, <<0, 0, 1920, 1040>>)
MonSecond == Mon(D2, FALSE, <<1920, 0, 3840, 1080>>, <<1920, 0, 3840, 1080>>)

\* enum: the monitors EnumDisplayMonitors reports and GetMonitorInfoW can read;
\* devices: the attached devices of EnumDisplayDevicesW; devices_ok: FALSE
\* when that enumeration raises.
OsExtended == [enum |-> <<MonPrimary, MonSecond>>, devices |-> <<D1, D2>>, devices_ok |-> TRUE]
OsSingle == [enum |-> <<MonPrimary>>, devices |-> <<D1>>, devices_ok |-> TRUE]
OsSecondOnly == [enum |-> <<MonSecond>>, devices |-> <<>>, devices_ok |-> FALSE]

Topologies == {OsExtended, OsSingle, OsSecondOnly}

-----------------------------------------------------------------------------
(* The windows the OS can report *)

Window(vis, title, cls, proc) ==
    [visible |-> vis, title |-> title, class_name |-> cls, process |-> proc]

WinNotepad == Window(TRUE, "Untitled - Notepad", "Notepad", "notepad.exe")
WinObs == Window(TRUE, "OBS Studio", "Qt5QWindowIcon", "obs64.exe")
WinPptEditor == Window(TRUE, "Presentation1 - PowerPoint", "PPTFrameClass", "POWERPNT.EXE")
WinPptShow == Window(TRUE, "PowerPoint Slide Show", "screenClass", "POWERPNT.EXE")
WinUnknown == Window(TRUE, "Task Manager", "TaskManagerWindow", None)
WinDesktop == Window(TRUE, "Program Manager", "Progman", "explorer.exe")

WindowKinds == {WinNotepad, WinObs, WinPptEditor, WinPptShow, WinUnknown, WinDesktop}

RectOnSecond == <<2480, 240, 3280, 840>>
RectOnPrimary == <<100, 100, 900, 700>>
RectOnEdge == <<1520, 100, 2320, 700>>

RectChoices == {RectOnSecond, RectOnPrimary}

-----------------------------------------------------------------------------
(* monitor_info.py *)

RECURSIVE FirstPrimary(_, _)
FirstPrimary(monitors, i) ==
    IF i > Len(monitors) THEN 0
    ELSE IF monitors[i].is_primary THEN i
    ELSE FirstPrimary(monitors, i + 1)

\* RefMonitorIndex that always takes the last monitor of the list.
RefMonitorIndex_Last(monitors) == Len(monitors)

\* The monitor a synthetic clone copies: the first primary, else the last one.
RefMonitorIndex(monitors) ==
    IF FirstPrimary(monitors, 1) # 0 THEN FirstPrimary(monitors, 1)
    ELSE Len(monitors)

RECURSIVE AddMissingDevices(_, _, _, _)
AddMissingDevices(monitors, names_from_enum, devices, i) ==
    IF i > Len(devices) THEN monitors
    ELSE IF devices[i] \notin names_from_enum /\ RefMonitorIndex(monitors) # 0
    THEN LET ref == monitors[RefMonitorIndex(monitors)]
         IN AddMissingDevices(
                Append(monitors, Mon(devices[i], FALSE, ref.rc_monitor, ref.rc_work)),
                names_from_enum, devices, i + 1)
    ELSE AddMissingDevices(monitors, names_from_enum, devices, i + 1)

\* EnumerateMonitors without the merge of EnumDisplayDevicesW.
EnumerateMonitors_EnumOnly(o) == o.enum

\* A fresh enumeration: EnumDisplayMonitors merged with EnumDisplayDevicesW.
EnumerateMonitors(o) ==
    LET names_from_enum ==
            {o.enum[i].device_name : i \in {j \in DOMAIN o.enum : o.enum[j].device_name # ""}}
    IN IF o.devices_ok
       THEN AddMissingDevices(o.enum, names_from_enum, o.devices, 1)
       ELSE o.enum

\* CacheIsFresh that still accepts a snapshot of exactly the cache duration.
CacheIsFresh_Inclusive(cache, t) ==
    cache.has /\ t - cache.timestamp <= CACHE_DURATION_MS

CacheIsFresh(cache, t) ==
    cache.has /\ t - cache.timestamp < CACHE_DURATION_MS

\* The cache after get_monitors() was called at time t.
CacheAfterGet(cache, t, o) ==
    IF CacheIsFresh(cache, t) THEN cache
    ELSE [has |-> TRUE, monitors |-> EnumerateMonitors(o), timestamp |-> t]

get_monitors(cache, t, o) == CacheAfterGet(cache, t, o).monitors

\* get_primary_monitor falling back to the first monitor of the snapshot.
get_primary_monitor_FirstMonitor(monitors) ==
    IF FirstPrimary(monitors, 1) # 0 THEN <<monitors[FirstPrimary(monitors, 1)]>>
    ELSE IF monitors # <<>> THEN <<monitors[1]>>
    ELSE <<>>

get_primary_monitor(monitors) ==
    IF FirstPrimary(monitors, 1) = 0 THEN <<>>
    ELSE <<monitors[FirstPrimary(monitors, 1)]>>

RECURSIVE FirstNamed(_, _, _)
FirstNamed(monitors, device_name, i) ==
    IF i > Len(monitors) THEN 0
    ELSE IF monitors[i].device_name = device_name THEN i
    ELSE FirstNamed(monitors, device_name, i + 1)

\* The monitor of that name as a one-element sequence, <<>> when there is none.
get_monitor_by_device_name(monitors, device_name) ==
    IF FirstNamed(monitors, device_name, 1) = 0 THEN <<>>
    ELSE <<monitors[FirstNamed(monitors, device_name, 1)]>>

get_projector_monitors(monitors) ==
    SelectSeq(monitors, LAMBDA m : ~m.is_primary)

has_projectors_MoreThanTwo(monitors) == Len(monitors) > 2

has_projectors(monitors) == Len(monitors) > 1

is_point_in_rect(x, y, rc) ==
    rc[1] <= x /\ x <= rc[3] /\ rc[2] <= y /\ y <= rc[4]

CenterX(r) == (r[1] + r[3]) \div 2
CenterY(r) == (r[2] + r[4]) \div 2

\* r = <<>>: GetWindowRect raised, and the function returns False.
is_window_on_monitor(r, monitor) ==
    r # <<>> /\ is_point_in_rect(CenterX(r), CenterY(r), monitor.rc_monitor)

-----------------------------------------------------------------------------
(* whitelist.py *)

is_whitelisted(wl, process_name) ==
    IF process_name = None \/ process_name = "" THEN FALSE
    ELSE Strip(Upper(process_name)) \in wl

-----------------------------------------------------------------------------
(* window_monitor.py: the queries *)

_is_recently_moved_InSeconds(rm, h, t) ==
    h \in DOMAIN rm /\ t - rm[h] < MOVE_DEBOUNCE_MS \div 1000

_is_recently_moved(rm, h, t) ==
    h \in DOMAIN rm /\ t - rm[h] < MOVE_DEBOUNCE_MS

\* _cleanup_old_entries that drops nothing.
_cleanup_old_entries_KeepsAll(rm, t) == rm

_cleanup_old_entries(rm, t) ==
    [h \in {k \in DOMAIN rm : rm[k] >= t - MOVE_DEBOUNCE_MS} |-> rm[h]]

get_process_name(w) ==
    IF w.process = None THEN None ELSE Upper(w.process)

is_valid_window(w) ==
    /\ w.visible
    /\ w.title # ""
    /\ w.class_name \notin SYSTEM_CLASSES

is_window_on_device(r, monitors, device_name) ==
    \E found \in {get_monitor_by_device_name(monitors, device_name)} :
        found # <<>> /\ is_window_on_monitor(r, found[1])

_is_powerpoint_in_slideshow(w, process_name) ==
    process_name = "POWERPNT.EXE" /\ w.class_name = "screenClass"

OnSomeProtected(r, monitors, prot) ==
    \E d \in prot : is_window_on_device(r, monitors, d)

PresentationPolicy_AllowListFirst(cfg, monitors, w, r, process_name) ==
    IF is_whitelisted(cfg.whitelist, process_name)
       \/ _is_powerpoint_in_slideshow(w, process_name)
    THEN <<FALSE, process_name>>
    ELSE <<OnSomeProtected(r, monitors, cfg.protected), process_name>>

\* The branch of should_move_window for POWERPNT.EXE.
PresentationPolicy(cfg, monitors, w, r, process_name) ==
    IF _is_powerpoint_in_slideshow(w, process_name)
    THEN <<FALSE, process_name>>
    ELSE <<OnSomeProtected(r, monitors, cfg.protected), process_name>>

GeneralPolicy_ProtectedFirst(cfg, monitors, w, r, process_name) ==
    IF is_whitelisted(cfg.whitelist, process_name)
    THEN <<FALSE, process_name>>
    ELSE IF OnSomeProtected(r, monitors, cfg.protected)
    THEN <<TRUE, process_name>>
    ELSE <<FALSE, process_name>>

\* The rest of should_move_window: allow-list, always-allowed monitor,
\* protected monitors.
GeneralPolicy(cfg, monitors, w, r, process_name) ==
    IF is_whitelisted(cfg.whitelist, process_name)
    THEN <<FALSE, process_name>>
    ELSE IF cfg.primary # None /\ cfg.primary # ""
            /\ is_window_on_device(r, monitors, cfg.primary)
    THEN <<FALSE, process_name>>
    ELSE <<OnSomeProtected(r, monitors, cfg.protected), process_name>>

should_move_window_UnknownByMonitor(cfg, monitors, w, r) ==
    IF ~cfg.enabled THEN <<FALSE, None>>
    ELSE LET process_name == get_process_name(w) IN
         IF process_name = None \/ process_name = ""
         THEN <<OnSomeProtected(r, monitors, cfg.protected), None>>
         ELSE IF process_name = "POWERPNT.EXE"
         THEN PresentationPolicy(cfg, monitors, w, r, process_name)
         ELSE GeneralPolicy(cfg, monitors, w, r, process_name)

\* cfg: the engine's configuration [enabled, protected, primary, whitelist];
\* w, r: the window's attributes and rectangle; the result is the pair
\* <<should_move, process_name>>.
should_move_window(cfg, monitors, w, r) ==
    IF ~cfg.enabled THEN <<FALSE, None>>
    ELSE LET process_name == get_process_name(w) IN
         IF process_name = None \/ process_name = "" THEN <<TRUE, None>>
         ELSE IF process_name = "POWERPNT.EXE"
         THEN PresentationPolicy(cfg, monitors, w, r, process_name)
         ELSE GeneralPolicy(cfg, monitors, w, r, process_name)

Config ==
    [enabled |-> enabled, protected |-> protected_device_names,
     primary |-> primary_device, whitelist |-> whitelist]

-----------------------------------------------------------------------------
(* window_monitor.py: one call of check_and_enforce *)

\* The state a call works on: rm the MoveLedger, df the DeferredSet, rect the
\* window rectangles, stats, moved_count the call's counter, and what the
\* call did so far (mt, moved_d, moved_e, added, debounced, failed, events,
\* raised, aborted, visited, errored, attempts).
WorkState ==
    [rm |-> recently_moved, df |-> deferred_hwnds, rect |-> rect, stats |-> stats,
     mt |-> moved_at, moved_count |-> 0, moved_d |-> {}, moved_e |-> {}, added |-> {},
     debounced |-> {}, failed |-> {}, events |-> <<>>, raised |-> FALSE,
     aborted |-> FALSE, visited |-> {}, errored |-> {}, attempts |-> <<>>]

Min(a, b) == IF a < b THEN a ELSE b

\* TargetRect without the clamp to the work area: the window keeps its size.
TargetRect_NoClamp(r, work_rect) ==
    LET new_x == work_rect[1] + PADDING
        new_y == work_rect[2] + PADDING
    IN <<new_x, new_y, new_x + (r[3] - r[1]), new_y + (r[4] - r[2])>>

\* The rectangle SetWindowPos gives a window of rectangle r.
TargetRect(r, work_rect) ==
    LET width == Min(r[3] - r[1], work_rect[3] - work_rect[1])
        height == Min(r[4] - r[2], work_rect[4] - work_rect[2])
        new_x == work_rect[1] + PADDING
        new_y == work_rect[2] + PADDING
    IN <<new_x, new_y, new_x + width, new_y + height>>

\* fails: the OS calls that raise during one call of check_and_enforce.
\*   move      windows whose SetWindowPos raises in move_to_primary_monitor
\*   rect      windows whose GetWindowRect raises (is_window_on_monitor and
\*             move_to_primary_monitor)
\*   visible   windows whose IsWindowVisible raises
\*   text      windows whose GetWindowText raises in is_valid_window
\*   class     windows whose GetClassName raises in is_valid_window
\*   retitle   windows whose GetWindowText raises after the window was moved
\*   observer  windows for which on_window_moved raises
\*   drag      GetAsyncKeyState raises in _is_dragging
\*   enum      EnumWindows raises before it reports a window
NoFaults ==
    [move |-> {}, rect |-> {}, visible |-> {}, text |-> {}, class |-> {},
     retitle |-> {}, observer |-> {}, drag |-> FALSE, enum |-> FALSE]

MoveSucceeds(h, monitors, fails) ==
    get_primary_monitor(monitors) # <<>> /\ h \notin fails.rect /\ h \notin fails.move

\* move_to_primary_monitor(h) when it succeeds.
move_to_primary_monitor(S, h, monitors, t) ==
    LET primary_monitor == get_primary_monitor(monitors)[1]
    IN [S EXCEPT !.rect[h] = TargetRect(S.rect[h], primary_monitor.rc_work),
                 !.rm = (h :> t) @@ S.rm,
                 !.mt = (h :> t) @@ S.mt]

OrUnknown(process_name) ==
    IF process_name = None \/ process_name = "" THEN "Unknown" ELSE process_name

\* What follows a successful move: the counter and total_moves, then, in a
\* try block that GetWindowText or the observer can leave, the title, the
\* process and the event.
RecordMove(S, h, stat_process, event_process, fails) ==
    LET counted == [S EXCEPT !.moved_count = @ + 1, !.stats.total_moves = @ + 1]
    IN IF h \in fails.retitle THEN counted
       ELSE [counted EXCEPT !.stats.last_moved_title = win[h].title,
                            !.stats.last_moved_process = stat_process,
                            !.events = Append(@, <<h, event_process, win[h].title>>)]

\* The element of a one-element set. An intermediate state of a call is
\* bound as T \in {e}, so that it is computed once.
The(set) == CHOOSE x \in set : TRUE

\* The hwnds of a set in ascending order.
RECURSIVE SetToSeq(_)
SetToSeq(set) ==
    IF set = {} THEN <<>>
    ELSE LET m == CHOOSE x \in set : \A y \in set : x <= y
         IN <<m>> \o SetToSeq(set \ {m})

\* is_valid_window(h) when IsWindowVisible does not raise: a title or class
\* that cannot be read makes the window invalid.
IsValid(h, fails) ==
    is_valid_window(win[h]) /\ h \notin fails.text /\ h \notin fails.class

\* The rectangle GetWindowRect reports for h: <<>> when the call raises.
RectRead(S, h, fails) == IF h \in fails.rect THEN <<>> ELSE S.rect[h]

\* A pass meets window h: errored collects the windows met for which a read
\* or the observer fails in this call.
Meet(S, h, fails) ==
    IF h \in fails.visible \cup fails.text \cup fails.class \cup fails.rect
              \cup fails.retitle \cup fails.observer
    THEN [S EXCEPT !.errored = @ \cup {h}]
    ELSE S

\* The call made one more attempt to move h.
Attempt(S, h) == [S EXCEPT !.attempts = Append(@, h)]

\* The drag-end pass over the deferred windows; IsWindowVisible raising
\* leaves the pass and the call.
RECURSIVE DeferredPass(_, _, _, _, _, _)
DeferredPass(S, deferred, i, monitors, fails, t) ==
    IF i > Len(deferred) THEN S
    ELSE LET h == deferred[i]
             S0 == Meet(S, h, fails)
             S1 == IF h \in fails.visible THEN [S0 EXCEPT !.raised = TRUE]
                   ELSE IF ~IsValid(h, fails) THEN S0
                   ELSE IF _is_recently_moved(S0.rm, h, t)
                   THEN [S0 EXCEPT !.debounced = @ \cup {h}]
                   ELSE IF MoveSucceeds(h, monitors, fails)
                   THEN LET M == move_to_primary_monitor(Attempt(S0, h), h, monitors, t)
                        IN RecordMove([M EXCEPT !.moved_d = @ \cup {h}], h,
                                      OrUnknown(get_process_name(win[h])),
                                      get_process_name(win[h]), fails)
                   ELSE [Attempt(S0, h) EXCEPT !.failed = @ \cup {h}]
         IN The({IF T.raised THEN T
                 ELSE DeferredPass(T, deferred, i + 1, monitors, fails, t) : T \in {S1}})

enum_callback_IgnoresDrag(S, h, cfg, monitors, is_currently_dragging, fails, t) ==
    IF h \in fails.visible THEN [S EXCEPT !.aborted = TRUE]
    ELSE IF ~IsValid(h, fails) THEN S
    ELSE IF _is_recently_moved(S.rm, h, t) THEN [S EXCEPT !.debounced = @ \cup {h}]
    ELSE The({IF ~sm[1] THEN S
              ELSE IF MoveSucceeds(h, monitors, fails)
              THEN LET M == move_to_primary_monitor(Attempt(S, h), h, monitors, t)
                   IN RecordMove([M EXCEPT !.moved_e = @ \cup {h}], h,
                                 OrUnknown(sm[2]), sm[2], fails)
              ELSE [Attempt(S, h) EXCEPT !.failed = @ \cup {h}] :
              sm \in {should_move_window(cfg, monitors, win[h], RectRead(S, h, fails))}})

\* enum_callback(h) for one enumerated window; IsWindowVisible raising leaves
\* the callback and with it the enumeration.
enum_callback(S, h, cfg, monitors, is_currently_dragging, fails, t) ==
    IF h \in fails.visible THEN [S EXCEPT !.aborted = TRUE]
    ELSE IF ~IsValid(h, fails) THEN S
    ELSE IF _is_recently_moved(S.rm, h, t) THEN [S EXCEPT !.debounced = @ \cup {h}]
    ELSE The({IF ~sm[1] THEN S
              ELSE IF is_currently_dragging
              THEN [S EXCEPT !.df = @ \cup {h}, !.added = @ \cup {h}]
              ELSE IF MoveSucceeds(h, monitors, fails)
              THEN LET M == move_to_primary_monitor(Attempt(S, h), h, monitors, t)
                   IN RecordMove([M EXCEPT !.moved_e = @ \cup {h}], h,
                                 OrUnknown(sm[2]), sm[2], fails)
              ELSE [Attempt(S, h) EXCEPT !.failed = @ \cup {h}] :
              sm \in {should_move_window(cfg, monitors, win[h], RectRead(S, h, fails))}})

\* EnumWindows(enum_callback) over the windows in the order hwnds, from i on;
\* it stops at the first callback that raises.
RECURSIVE EnumWindows(_, _, _, _, _, _, _, _)
EnumWindows(S, hwnds, i, cfg, monitors, is_currently_dragging, fails, t) ==
    IF i > Len(hwnds) \/ S.aborted THEN S
    ELSE The({EnumWindows(T, hwnds, i + 1, cfg, monitors, is_currently_dragging, fails, t) :
                 T \in {enum_callback(Meet([S EXCEPT !.visited = @ \cup {hwnds[i]}],
                                           hwnds[i], fails), hwnds[i],
                                      cfg, monitors, is_currently_dragging, fails, t)}})

Enforce_KeepsDeferred(cfg, monitors, is_currently_dragging, fails, t) ==
    LET S0 == [WorkState EXCEPT !.rm = _cleanup_old_entries(recently_moved, t)]
        S1 == IF was_dragging /\ ~is_currently_dragging
              THEN The({DeferredPass(T, SetToSeq(deferred_hwnds), 1, monitors, fails, t) :
                        T \in {S0}})
              ELSE S0
    IN The({EnumWindows(T, SetToSeq(Hwnds), 1, cfg, monitors, is_currently_dragging, fails, t) :
            T \in {S1}})

\* The body of check_and_enforce after the fast path. The call is left with
\* an exception (raised) when _is_dragging raises or the drag-end pass does;
\* an exception of the enumeration is caught.
Enforce(cfg, monitors, is_currently_dragging, fails, t) ==
    LET S0 == [WorkState EXCEPT !.rm = _cleanup_old_entries(recently_moved, t)]
        S1 == IF fails.drag THEN [S0 EXCEPT !.raised = TRUE]
              ELSE IF was_dragging /\ ~is_currently_dragging
              THEN The({DeferredPass(T, SetToSeq(deferred_hwnds), 1, monitors, fails, t) :
                        T \in {[S0 EXCEPT !.df = {}]}})
              ELSE S0
    IN The({IF T.raised \/ fails.enum THEN T
            ELSE EnumWindows(T, SetToSeq(Hwnds), 1, cfg, monitors,
                             is_currently_dragging, fails, t) :
            T \in {S1}})

\* The record of a step: op the operation; for a call of check_and_enforce
\* whether it left by the fast path, the drag sample, whether the drag-end
\* pass ran, the return value, the windows moved by the drag-end pass and by
\* the enumeration, the windows added to the DeferredSet, the windows
\* skipped as recently moved, the windows whose move failed, the events
\* emitted, whether the call raised instead of returning, whether the
\* enumeration was aborted, the windows the enumeration reported, the
\* windows met for which a read or the observer failed and the windows
\* move_to_primary_monitor was called for, in order; for a call of
\* should_move_window its argument and result; for a call of
\* get_primary_monitor the device it returned; for a call of
\* set_primary_monitor its argument and result.
Idle == [op |-> "idle", fast |-> FALSE, drag |-> FALSE, drag_end |-> FALSE, ret |-> 0,
         moved_d |-> {}, moved_e |-> {}, added |-> {}, debounced |-> {}, failed |-> {},
         events |-> <<>>, raised |-> FALSE, aborted |-> FALSE, visited |-> {},
         errored |-> {}, attempts |-> <<>>,
         hwnd |-> 0, should_move |-> FALSE, process_name |-> None,
         device |-> None, ok |-> FALSE]

FastPath == [Idle EXCEPT !.op = "tick", !.fast = TRUE]

\* check_and_enforce(); drag is what _is_dragging() samples. A call that
\* raises keeps what it did up to there and does not store the drag sample;
\* ret is the value of a call that returns.
Tick(drag, fails) ==
    \E cache \in {CacheAfterGet(monitor_cache, now, os)} :
       IF ~enabled
       THEN /\ last' = FastPath
            /\ UNCHANGED <<enabled, protected_device_names, primary_device, whitelist, custom_whitelist,
                           stats, recently_moved, was_dragging, deferred_hwnds,
                           monitor_cache, now, os, win, rect, moved_at>>
       ELSE IF ~has_projectors(cache.monitors)
       THEN /\ monitor_cache' = cache
            /\ last' = FastPath
            /\ UNCHANGED <<enabled, protected_device_names, primary_device, whitelist, custom_whitelist,
                           stats, recently_moved, was_dragging, deferred_hwnds,
                           now, os, win, rect, moved_at>>
       ELSE /\ UNCHANGED <<enabled, protected_device_names, primary_device,
                           whitelist, custom_whitelist, now, os, win>>
            /\ \E S \in {Enforce(Config, cache.monitors, drag, fails, now)} :
               /\ was_dragging' = (IF S.raised THEN was_dragging ELSE drag)
               /\ monitor_cache' = cache
               /\ recently_moved' = S.rm
               /\ deferred_hwnds' = S.df
               /\ rect' = S.rect
               /\ stats' = S.stats
               /\ moved_at' = S.mt
               /\ last' = [Idle EXCEPT !.op = "tick", !.drag = drag,
                                        !.drag_end = ~fails.drag /\ was_dragging /\ ~drag,
                                        !.ret = (IF S.raised THEN 0 ELSE S.moved_count),
                                        !.moved_d = S.moved_d, !.moved_e = S.moved_e,
                                        !.added = S.added, !.debounced = S.debounced,
                                        !.failed = S.failed, !.events = S.events,
                                        !.raised = S.raised, !.aborted = S.aborted,
                                        !.visited = S.visited, !.errored = S.errored,
                                        !.attempts = S.attempts]

-----------------------------------------------------------------------------
(* The other operations and the environment *)

\* set_enabled(b), as toggle_protection and on_settings_changed call it.
SetEnabled(b) ==
    /\ enabled' = b
    /\ last' = Idle
    /\ UNCHANGED <<protected_device_names, primary_device, whitelist, custom_whitelist, stats,
                   recently_moved, was_dragging, deferred_hwnds, monitor_cache, now,
                   os, win, rect, moved_at>>

\* Whitelist.add(process_name): the settings dialog adds a custom entry.
WhitelistAdd(process_name) ==
    /\ whitelist' = whitelist \cup {Strip(Upper(process_name))}
    /\ custom_whitelist' = custom_whitelist \cup {Strip(Upper(process_name))}
    /\ last' = Idle
    /\ UNCHANGED <<enabled, protected_device_names, primary_device, stats,
                   recently_moved, was_dragging, deferred_hwnds, monitor_cache, now,
                   os, win, rect, moved_at>>

\* Whitelist.remove(process_name).
WhitelistRemove(process_name) ==
    /\ whitelist' = whitelist \ {Strip(Upper(process_name))}
    /\ custom_whitelist' = custom_whitelist \ {Strip(Upper(process_name))}
    /\ last' = Idle
    /\ UNCHANGED <<enabled, protected_device_names, primary_device, stats,
                   recently_moved, was_dragging, deferred_hwnds, monitor_cache, now,
                   os, win, rect, moved_at>>

\* The user puts a window somewhere else.
UserMovesWindow(h, r) ==
    /\ rect[h] # r
    /\ rect' = [rect EXCEPT ![h] = r]
    /\ last' = Idle
    /\ UNCHANGED <<enabled, protected_device_names, primary_device, whitelist, custom_whitelist, stats,
                   recently_moved, was_dragging, deferred_hwnds, monitor_cache, now,
                   os, win, moved_at>>

\* Time passes.
Advance(d) ==
    /\ now + d <= MaxTime
    /\ now' = now + d
    /\ last' = Idle
    /\ UNCHANGED <<enabled, protected_device_names, primary_device, whitelist, custom_whitelist, stats,
                   recently_moved, was_dragging, deferred_hwnds, monitor_cache,
                   os, win, rect, moved_at>>

\* The installations the model starts from: what the OS reports, the
\* protected devices and the always-allowed device of the configuration.
Scenario(o, prot, prim) == [os |-> o, protected |-> prot, primary |-> prim]

Scenarios ==
    {Scenario(OsExtended, {D2, D3}, None),
     Scenario(OsExtended, {D1, D2}, D1),
     Scenario(OsSingle, {D2, D3}, None),
     Scenario(OsSecondOnly, {D2}, None)}

CustomNames == {"notepad.exe"}

\* The desktops the model starts from: the kinds of the two windows.
Desktop(a, b) == (101 :> a) @@ (102 :> b)

Desktops ==
    {Desktop(WinNotepad, WinObs), Desktop(WinObs, WinUnknown),
     Desktop(WinUnknown, WinDesktop), Desktop(WinDesktop, WinNotepad),
     Desktop(WinNotepad, WinNotepad)}

\* The windows whose repositioning can fail in one call: none, or one.
FailChoices == {[NoFaults EXCEPT !.move = m] : m \in {{}} \cup {{h} : h \in Hwnds}}

\* The state after construction, in one of the installations `scenarios`
\* with one of the desktops `desktops`.
InitIn(scenarios, desktops) ==
    /\ enabled = TRUE
    /\ \E sc \in scenarios :
          /\ os = sc.os
          /\ protected_device_names = sc.protected
          /\ primary_device = sc.primary
    /\ whitelist = DEFAULT_WHITELIST
    /\ custom_whitelist = {}
    /\ stats = [total_moves |-> 0, last_moved_process |-> "", last_moved_title |-> ""]
    /\ recently_moved = <<>>
    /\ was_dragging = FALSE
    /\ deferred_hwnds = {}
    /\ monitor_cache = [has |-> FALSE, monitors |-> <<>>, timestamp |-> 0]
    /\ now = 0
    /\ win \in desktops
    /\ rect \in [Hwnds -> RectChoices]
    /\ moved_at = <<>>
    /\ last = Idle

Init == InitIn(Scenarios, Desktops)

Next ==
    \/ \E drag \in BOOLEAN, fails \in FailChoices : Tick(drag, fails)
    \/ \E b \in BOOLEAN : SetEnabled(b)
    \/ \E n \in CustomNames : WhitelistAdd(n)
    \/ \E n \in CustomNames : WhitelistRemove(n)
    \/ \E h \in Hwnds, r \in RectChoices : UserMovesWindow(h, r)
    \/ \E d \in ClockSteps : Advance(d)

Spec == Init /\ [][Next]_vars

-----------------------------------------------------------------------------
(* The placement policy on its own: should_move_window applied to one      *)
(* window under every configuration.                                       *)

\* should_move_window(h), called directly.
ShouldMove(h) ==
    \E cache \in {CacheAfterGet(monitor_cache, now, os)} :
       \E sm \in {should_move_window(Config, cache.monitors, win[h], rect[h])} :
          /\ monitor_cache' = cache
          /\ last' = [Idle EXCEPT !.op = "should_move", !.hwnd = h,
                                  !.should_move = sm[1], !.process_name = sm[2]]
          /\ UNCHANGED <<enabled, protected_device_names, primary_device, whitelist, custom_whitelist,
                         stats, recently_moved, was_dragging, deferred_hwnds, now,
                         os, win, rect, moved_at>>

\* set_protected_devices(device_names).
SetProtectedDevices(device_names) ==
    /\ protected_device_names' = device_names
    /\ last' = Idle
    /\ UNCHANGED <<enabled, primary_device, whitelist, custom_whitelist, stats, recently_moved,
                   was_dragging, deferred_hwnds, monitor_cache, now, os, win, rect,
                   moved_at>>

\* set_primary_device(device_name).
SetPrimaryDevice(device_name) ==
    /\ primary_device' = device_name
    /\ last' = Idle
    /\ UNCHANGED <<enabled, protected_device_names, whitelist, custom_whitelist, stats, recently_moved,
                   was_dragging, deferred_hwnds, monitor_cache, now, os, win, rect,
                   moved_at>>

ProtectedChoices == {{}, {D2}, {D1, D2}, {D2, D3}}
PrimaryChoices == {None, D1, D2}
PolicyNames == {"notepad.exe", "POWERPNT.EXE"}
PolicyRects == {RectOnSecond, RectOnPrimary, RectOnEdge}

\* Window 101 is the window under test, of every kind; the snapshot was taken
\* at start-up.
PolicyInit ==
    /\ enabled = TRUE
    /\ os \in Topologies
    /\ protected_device_names = {D2, D3}
    /\ primary_device = None
    /\ whitelist = DEFAULT_WHITELIST
    /\ custom_whitelist = {}
    /\ stats = [total_moves |-> 0, last_moved_process |-> "", last_moved_title |-> ""]
    /\ recently_moved = <<>>
    /\ was_dragging = FALSE
    /\ deferred_hwnds = {}
    /\ monitor_cache = CacheAfterGet([has |-> FALSE, monitors |-> <<>>, timestamp |-> 0], 0, os)
    /\ now = 0
    /\ \E k \in WindowKinds : win = Desktop(k, WinObs)
    /\ rect = (101 :> RectOnSecond) @@ (102 :> RectOnSecond)
    /\ moved_at = <<>>
    /\ last = Idle

PolicyNext ==
    \/ ShouldMove(101)
    \/ \E b \in BOOLEAN : SetEnabled(b)
    \/ \E names \in ProtectedChoices : SetProtectedDevices(names)
    \/ \E d \in PrimaryChoices : SetPrimaryDevice(d)
    \/ \E n \in PolicyNames : WhitelistAdd(n)
    \/ \E n \in PolicyNames : WhitelistRemove(n)
    \/ \E r \in PolicyRects : UserMovesWindow(101, r)

PolicySpec == PolicyInit /\ [][PolicyNext]_vars

-----------------------------------------------------------------------------
(* Vocabulary of the properties *)

\* The snapshot the last call of get_monitors() returned.
Snapshot == monitor_cache.monitors

\* The centre point of rectangle r lies within the bounds rc.
CenterWithin(r, rc) ==
    /\ rc[1] <= (r[1] + r[3]) \div 2 /\ (r[1] + r[3]) \div 2 <= rc[3]
    /\ rc[2] <= (r[2] + r[4]) \div 2 /\ (r[2] + r[4]) \div 2 <= rc[4]

\* The centre of window h lies on a monitor of the snapshot `monitors` that
\* is protected / always allowed.
OnProtectedIn(monitors, h) ==
    \E i \in DOMAIN monitors :
        /\ monitors[i].device_name \in protected_device_names
        /\ CenterWithin(rect[h], monitors[i].rc_monitor)

OnAlwaysAllowedIn(monitors, h) ==
    \E i \in DOMAIN monitors :
        /\ primary_device # None /\ monitors[i].device_name = primary_device
        /\ CenterWithin(rect[h], monitors[i].rc_monitor)

OnProtectedMonitor(h) == OnProtectedIn(Snapshot, h)

OnAlwaysAllowedMonitor(h) == OnAlwaysAllowedIn(Snapshot, h)

Unresolved(h) == win[h].process = None

IsPresentationApp(h) == ~Unresolved(h) /\ Upper(win[h].process) = "POWERPNT.EXE"

AllowListed(h) == ~Unresolved(h) /\ Upper(win[h].process) \in whitelist

\* should_move_window(h) has just returned.
Evaluated(h) == last.op = "should_move" /\ last.hwnd = h

\* Window h is a candidate of the enumeration: visible, titled, no shell class.
Candidate(h) ==
    win[h].visible /\ win[h].title # "" /\ win[h].class_name \notin SYSTEM_CLASSES

\* The policy asks to move window h, judged against the snapshot `monitors`.
ViolatingIn(monitors, h) == should_move_window(Config, monitors, win[h], rect[h])[1]

\* Window h is within its debounce window at the time of the step.
WithinDebounce(h) == h \in DOMAIN moved_at /\ now - moved_at[h] < MOVE_DEBOUNCE_MS

\* This step is a call of check_and_enforce; EnforcingStep: one that passed
\* the fast path.
TickStep == last'.op = "tick" /\ vars' # vars

EnforcingStep == TickStep /\ ~last'.fast

MovedInStep == last'.moved_d \cup last'.moved_e

\* The MoveLedger gained no entry and changed none in this step.
LedgerGainsNothing ==
    \A h \in DOMAIN recently_moved' :
        h \in DOMAIN recently_moved /\ recently_moved'[h] = recently_moved[h]

-----------------------------------------------------------------------------
(* The placement policy *)

\* C1 (as claimed): every window whose centre point lies outside the bounds
\* of every protected monitor has should_move = false, in every engine state
\* and for every outcome of process-name resolution.
C1_BaselineSafety ==
    \A h \in Hwnds :
        Evaluated(h) /\ ~OnProtectedMonitor(h) => last.should_move = FALSE

\* C2: when the engine is enabled and the process name of the window cannot
\* be resolved, should_move_window returns (true, no name), whatever the
\* allow-list, the always-allowed monitor and the protected monitors are.
C2_FailSafe ==
    \A h \in Hwnds :
        Evaluated(h) /\ enabled /\ Unresolved(h)
            => last.should_move = TRUE /\ last.process_name = None

\* C2 witness: an unresolvable window on the always-allowed monitor and on no
\* protected monitor was evaluated to true.
C2_Witness ==
    /\ Evaluated(101) /\ enabled /\ Unresolved(101)
    /\ OnAlwaysAllowedMonitor(101) /\ ~OnProtectedMonitor(101)
    /\ last.should_move = TRUE

\* C3 (as claimed): the editor window of POWERPNT.EXE with its centre on a
\* protected monitor has should_move = true, also when POWERPNT.EXE is
\* allow-listed; its slideshow window (class screenClass) has should_move =
\* false on any monitor.
C3_PresentationAsClaimed ==
    \A h \in Hwnds :
        Evaluated(h) /\ IsPresentationApp(h)
            => /\ win[h].class_name # "screenClass" /\ OnProtectedMonitor(h)
                    => last.should_move = TRUE
               /\ win[h].class_name = "screenClass" => last.should_move = FALSE

\* C3 (amended): while the engine is enabled, the editor window of
\* POWERPNT.EXE with its centre on a protected monitor has should_move =
\* true, also when POWERPNT.EXE is allow-listed; its slideshow window has
\* should_move = false on any monitor, in every engine state.
C3_Presentation ==
    \A h \in Hwnds :
        Evaluated(h) /\ IsPresentationApp(h)
            => /\ enabled /\ win[h].class_name # "screenClass" /\ OnProtectedMonitor(h)
                    => last.should_move = TRUE
               /\ win[h].class_name = "screenClass" => last.should_move = FALSE

\* C3 witness: an allow-listed POWERPNT.EXE editor window on a protected
\* monitor was evaluated to true.
C3_Witness ==
    /\ Evaluated(101) /\ enabled /\ IsPresentationApp(101) /\ AllowListed(101)
    /\ win[101].class_name # "screenClass" /\ OnProtectedMonitor(101)
    /\ last.should_move = TRUE

\* C5: a window of an identifiable process that is neither POWERPNT.EXE nor
\* allow-listed, with its centre within the bounds of the configured
\* always-allowed monitor, has should_move = false, also when the centre
\* lies within the bounds of a protected monitor.
C5_AlwaysAllowed ==
    \A h \in Hwnds :
        Evaluated(h) /\ ~Unresolved(h) /\ ~IsPresentationApp(h) /\ ~AllowListed(h)
            /\ OnAlwaysAllowedMonitor(h)
            => last.should_move = FALSE

\* C5 witness: such a window, with its centre on the always-allowed monitor
\* and on a protected monitor, was evaluated to false by an enabled engine.
C5_Witness ==
    /\ Evaluated(101) /\ enabled
    /\ ~Unresolved(101) /\ ~IsPresentationApp(101) /\ ~AllowListed(101)
    /\ OnAlwaysAllowedMonitor(101) /\ OnProtectedMonitor(101)
    /\ last.should_move = FALSE

-----------------------------------------------------------------------------
(* The enforcement loop *)

\* A window on a protected monitor whose resolved process is allow-listed
\* and is not the presentation application.
AllowedOnProtectedIn(monitors, h) ==
    OnProtectedIn(monitors, h) /\ AllowListed(h) /\ ~IsPresentationApp(h)

\* C4: every such window has should_move = false, and a tick
\* that enumerates only such windows moves nothing and leaves the MoveLedger,
\* the DeferredSet and stats unchanged.
C4_AllowListed ==
    /\ [](\A h \in Hwnds : AllowedOnProtectedIn(Snapshot, h) => ~ViolatingIn(Snapshot, h))
    /\ [][TickStep /\ (\A h \in Hwnds : AllowedOnProtectedIn(monitor_cache'.monitors, h))
            => /\ last'.ret = 0
               /\ recently_moved' = recently_moved
               /\ deferred_hwnds' = deferred_hwnds
               /\ stats' = stats]_vars

\* C6: a window moved at time t is not moved again, by the enumeration pass
\* or by the drag-end pass, at any time before t + debounce_ms.
C6_Debounce ==
    [][TickStep
        => \A h \in MovedInStep :
              h \in DOMAIN moved_at => now >= moved_at[h] + MOVE_DEBOUNCE_MS]_vars

\* C6 witness: a tick that was not dragging met a window it had moved less
\* than debounce_ms before, back on a protected monitor and violating, and
\* skipped it.
C6_Witness ==
    /\ last.op = "tick" /\ ~last.fast /\ ~last.drag
    /\ \E h \in last.debounced :
          /\ moved_at[h] < now /\ now < moved_at[h] + MOVE_DEBOUNCE_MS
          /\ OnProtectedMonitor(h) /\ ViolatingIn(Snapshot, h)
          /\ h \notin last.moved_d \cup last.moved_e

\* C7 (as claimed): in every tick whose drag sample is DRAGGING no window is
\* moved (it returns 0, stats and the MoveLedger gain nothing), and every
\* candidate window for which should_move is true is added to the DeferredSet.
C7_DragSuspensionAsClaimed ==
    [][EnforcingStep /\ last'.drag
        => /\ last'.ret = 0 /\ MovedInStep = {} /\ rect' = rect
           /\ stats' = stats
           /\ LedgerGainsNothing
           /\ \A h \in Hwnds :
                 Candidate(h) /\ ViolatingIn(monitor_cache'.monitors, h)
                     => h \in deferred_hwnds']_vars

\* C7 (amended): in every tick whose drag sample is DRAGGING no window is
\* moved (it returns 0, stats and the MoveLedger gain nothing), and every
\* candidate window that is not within its debounce window and for which
\* should_move is true is added to the DeferredSet.
C7_DragSuspension ==
    [][EnforcingStep /\ last'.drag
        => /\ last'.ret = 0 /\ MovedInStep = {} /\ rect' = rect
           /\ stats' = stats
           /\ LedgerGainsNothing
           /\ \A h \in Hwnds :
                 Candidate(h) /\ ~WithinDebounce(h)
                     /\ ViolatingIn(monitor_cache'.monitors, h)
                     => h \in deferred_hwnds']_vars

\* C7 witness: a tick that sampled DRAGGING added a violating window to the
\* DeferredSet and moved nothing.
C7_Witness ==
    /\ last.op = "tick" /\ last.drag /\ last.ret = 0
    /\ \E h \in last.added :
          h \in deferred_hwnds /\ OnProtectedMonitor(h) /\ ViolatingIn(Snapshot, h)

\* A DeferredSet member that is still a valid window, still violating and not
\* within its debounce window, at a step whose snapshot is `monitors`.
DueMember(monitors, h) ==
    /\ h \in deferred_hwnds
    /\ Candidate(h)
    /\ ViolatingIn(monitors, h)
    /\ ~WithinDebounce(h)

C10_FastPath ==
    [][TickStep
        => /\ ~enabled \/ get_projector_monitors(get_monitors(monitor_cache, now, os)) = <<>>
                => /\ last'.fast /\ last'.ret = 0 /\ last'.events = <<>>
                   /\ rect' = rect
                   /\ UNCHANGED <<recently_moved, deferred_hwnds, was_dragging, stats>>
           /\ last'.fast
                => ~enabled \/ get_projector_monitors(get_monitors(monitor_cache, now, os)) = <<>>]_vars

-----------------------------------------------------------------------------
(* Liveness of enforcement *)

\* The user puts a window somewhere else, early enough for the debounce
\* window of an earlier move to end before the clock of the model stops.
UserMovesWindowEarly(h, r) ==
    /\ now + MOVE_DEBOUNCE_MS <= MaxTime
    /\ UserMovesWindow(h, r)

\* A tick that samples NOT_DRAGGING and whose repositioning succeeds.
GoodTick == Tick(FALSE, NoFaults)

TimePasses == \E d \in ClockSteps : Advance(d)

\* Installations with a primary monitor: a protected second monitor, with
\* and without an always-allowed primary, and a single monitor that is
\* protected.
LiveScenarios ==
    {Scenario(OsExtended, {D2, D3}, None),
     Scenario(OsExtended, {D1, D2}, D1),
     Scenario(OsSingle, {D1, D2}, None)}

LiveDesktops == {Desktop(WinNotepad, WinObs)}

LiveInit == InitIn(LiveScenarios, LiveDesktops)

\* The engine stays enabled: nothing calls set_enabled.
LiveNext ==
    \/ \E drag \in BOOLEAN, fails \in FailChoices : Tick(drag, fails)
    \/ \E h \in Hwnds, r \in RectChoices : UserMovesWindowEarly(h, r)
    \/ TimePasses

\* Ticks keep being invoked by the timer, the user stops dragging and the
\* repositioning succeeds; time passes.
LiveSpec ==
    LiveInit /\ [][LiveNext]_vars /\ WF_vars(GoodTick) /\ WF_vars(TimePasses)

\* What a tick would see now.
Topology == get_monitors(monitor_cache, now, os)

\* A visible, titled, non-system window of an identifiable process that is
\* not allow-listed, with its centre on a protected monitor and not on the
\* always-allowed monitor, while the engine is enabled and a primary monitor
\* exists.
MustBeMovedAsClaimed(h) ==
    /\ enabled
    /\ get_primary_monitor(Topology) # <<>>
    /\ Candidate(h) /\ ~Unresolved(h) /\ ~AllowListed(h)
    /\ OnProtectedIn(Topology, h) /\ ~OnAlwaysAllowedIn(Topology, h)

\* The same, when the topology also has a monitor that is not primary.
MustBeMoved(h) ==
    MustBeMovedAsClaimed(h) /\ get_projector_monitors(Topology) # <<>>

\* A tick has just moved window h into the work area of the primary monitor.
JustMovedToPrimary(h) ==
    /\ last.op = "tick" /\ h \in last.moved_d \cup last.moved_e
    /\ get_primary_monitor(Snapshot) # <<>>
    /\ rect[h] = TargetRect(rect[h], get_primary_monitor(Snapshot)[1].rc_work)

\* C9: while the engine stays enabled and a primary monitor exists, every
\* visible, titled, non-system window of an identifiable process that is not
\* allow-listed and whose centre stays on a protected monitor (and not on the
\* always-allowed monitor) is eventually moved to the primary monitor.
C9_LivenessAsClaimed ==
    \A h \in Hwnds :
        MustBeMovedAsClaimed(h) ~> (JustMovedToPrimary(h) \/ ~MustBeMovedAsClaimed(h))

\* C9, amended: the same for a topology that also has a monitor that is not
\* primary; on a single protected primary monitor every tick leaves by the
\* fast path and nothing is moved.
C9_Liveness ==
    \A h \in Hwnds : MustBeMoved(h) ~> (JustMovedToPrimary(h) \/ ~MustBeMoved(h))

\* C9 witness: a window that had to be moved has just been moved to the
\* primary monitor by a tick.
C9_Witness ==
    \E h \in Hwnds :
        /\ JustMovedToPrimary(h)
        /\ enabled /\ Candidate(h) /\ ~Unresolved(h) /\ ~AllowListed(h)
        /\ get_projector_monitors(Snapshot) # <<>>
        /\ moved_at[h] = now

-----------------------------------------------------------------------------
(* Move geometry (move_to_primary_monitor, lines 261-288) *)

\* Windows on the second monitor that do not fit the primary work area
\* (1920 x 1040): too wide, too tall, and one of exactly its size.
RectWide == <<1930, 240, 4430, 840>>
RectTall == <<2480, -200, 3280, 1300>>
RectExact == <<1930, 20, 3850, 1060>>

SizedRects == RectChoices \cup {RectWide, RectTall, RectExact}

MoveScenarios ==
    {Scenario(OsExtended, {D2, D3}, None), Scenario(OsExtended, {D1, D2}, D1)}

MoveDesktops == {Desktop(WinNotepad, WinUnknown)}

MoveInit == InitIn(MoveScenarios, MoveDesktops)

MoveNext ==
    \/ \E drag \in BOOLEAN, fails \in FailChoices : Tick(drag, fails)
    \/ \E h \in Hwnds, r \in SizedRects : UserMovesWindow(h, r)
    \/ \E d \in ClockSteps : Advance(d)

MoveSpec == MoveInit /\ [][MoveNext]_vars

\* The work area of the primary monitor of the snapshot the step used.
PrimaryWorkArea == get_primary_monitor(monitor_cache'.monitors)[1].rc_work

\* C11: a window of size (w, h) that a call moved has its top-left at the
\* primary work-area origin plus (20, 20), width min(w, work-area width) and
\* height min(h, work-area height); one that fits keeps its width and height.
C11_MoveGeometry ==
    [][TickStep =>
         \A h \in MovedInStep :
            LET w == rect[h][3] - rect[h][1]
                ht == rect[h][4] - rect[h][2]
                work_w == PrimaryWorkArea[3] - PrimaryWorkArea[1]
                work_h == PrimaryWorkArea[4] - PrimaryWorkArea[2]
            IN /\ rect'[h][1] = PrimaryWorkArea[1] + 20
               /\ rect'[h][2] = PrimaryWorkArea[2] + 20
               /\ rect'[h][3] - rect'[h][1] = (IF w <= work_w THEN w ELSE work_w)
               /\ rect'[h][4] - rect'[h][2] = (IF ht <= work_h THEN ht ELSE work_h)
               /\ (w <= work_w /\ ht <= work_h =>
                     /\ rect'[h][3] - rect'[h][1] = w
                     /\ rect'[h][4] - rect'[h][2] = ht)]_vars

\* A window wider than the work area was moved and is now 1920 wide, and in
\* the same desktop a window that fits was moved and kept its 800 x 600.
C11_Witness ==
    /\ last.op = "tick"
    /\ \E h \in last.moved_d \cup last.moved_e : rect[h] = <<20, 20, 1940, 620>>
    /\ \E h \in Hwnds : rect[h] = <<20, 20, 820, 620>> /\ h \in DOMAIN moved_at

-----------------------------------------------------------------------------
(* check_and_enforce when OS calls fail *)

\* reset_stats().
ResetStats ==
    /\ stats' = [total_moves |-> 0, last_moved_process |-> "", last_moved_title |-> ""]
    /\ last' = [Idle EXCEPT !.op = "reset_stats"]
    /\ UNCHANGED <<enabled, protected_device_names, primary_device, whitelist, custom_whitelist,
                   recently_moved, was_dragging, deferred_hwnds, monitor_cache, now,
                   os, win, rect, moved_at>>

\* The calls that fail in one call of check_and_enforce: none, or calls of
\* one kind, for one window or (repositioning) for both.
FaultChoices ==
    {NoFaults, [NoFaults EXCEPT !.drag = TRUE], [NoFaults EXCEPT !.enum = TRUE],
     [NoFaults EXCEPT !.move = {101}], [NoFaults EXCEPT !.move = {102}],
     [NoFaults EXCEPT !.move = Hwnds],
     [NoFaults EXCEPT !.visible = {101}], [NoFaults EXCEPT !.visible = {102}],
     [NoFaults EXCEPT !.rect = {101}], [NoFaults EXCEPT !.text = {101}],
     [NoFaults EXCEPT !.class = {102}], [NoFaults EXCEPT !.retitle = {102}],
     [NoFaults EXCEPT !.observer = {101}]}

FaultScenarios == {Scenario(OsExtended, {D2, D3}, None)}

FaultDesktops == {Desktop(WinNotepad, WinPptEditor)}

FaultInit == InitIn(FaultScenarios, FaultDesktops)

FaultNext ==
    \/ \E drag \in BOOLEAN, fails \in FaultChoices : Tick(drag, fails)
    \/ ResetStats
    \/ \E names \in {{D2, D3}, {D3}} : SetProtectedDevices(names)
    \/ \E h \in Hwnds : UserMovesWindow(h, RectOnSecond)
    \/ Advance(MOVE_DEBOUNCE_MS)

FaultSpec == FaultInit /\ [][FaultNext]_vars

\* C12: total_moves grows in a call of check_and_enforce by the number of
\* windows the call moved, which is the value the call returns; reset_stats
\* sets it to 0; no other step changes it.
C12_StatsAccounting ==
    [][/\ last'.op = "tick" =>
             /\ stats'.total_moves = stats.total_moves + Cardinality(MovedInStep)
             /\ last'.ret = Cardinality(MovedInStep)
       /\ last'.op = "reset_stats" => stats'.total_moves = 0
       /\ last'.op \notin {"tick", "reset_stats"} =>
             stats'.total_moves = stats.total_moves]_vars

\* The events a call emitted for window h.
EventsFor(h) == {i \in DOMAIN last'.events : last'.events[i][1] = h}

\* C13: every window a call of check_and_enforce moved, in either pass, has
\* exactly one event (window, process_name, title) emitted in that call, the
\* number of events is the increase of total_moves, and last_moved_process /
\* last_moved_title are those of a window the call moved.
C13_MoveNotification ==
    [][last'.op = "tick" =>
         /\ Len(last'.events) = stats'.total_moves - stats.total_moves
         /\ \A h \in MovedInStep :
               /\ Cardinality(EventsFor(h)) = 1
               /\ \A i \in EventsFor(h) :
                     last'.events[i] = <<h, get_process_name(win[h]), win[h].title>>
         /\ MovedInStep # {} =>
               \E h \in MovedInStep :
                  /\ stats'.last_moved_title = win[h].title
                  /\ stats'.last_moved_process = OrUnknown(get_process_name(win[h]))]_vars

\* C14: whichever OS calls fail, a call of check_and_enforce returns a count
\* and does not raise.
C14_NoErrorPropagates == last.op = "tick" => ~last.raised

\* C15: in a call in which the evaluation of a window failed, the
\* enumeration still evaluates every window it reports, and every other
\* candidate window that is not within its debounce window and for which
\* should_move is true is moved or deferred (or its reposition is reported
\* failed).
C15_PerWindowIsolation ==
    [][last'.op = "tick" /\ ~last'.raised /\ last'.errored # {} /\ last'.visited # {}
        => /\ last'.visited = Hwnds
           /\ \A h \in Hwnds \ last'.errored :
                 Candidate(h) /\ h \notin last'.debounced /\ h \notin last'.moved_d
                     /\ ViolatingIn(monitor_cache'.monitors, h)
                     => h \in last'.moved_e \cup last'.added \cup last'.failed]_vars

\* The number of times a call of check_and_enforce called
\* move_to_primary_monitor for window h.
AttemptsFor(h) == Cardinality({i \in DOMAIN last'.attempts : last'.attempts[i] = h})

\* C16: a window whose reposition failed in a call gets no MoveLedger entry,
\* no event and no count in stats or in the return value from that call, and
\* the call attempts to move it only once, also when it was a DeferredSet
\* member that the enumeration meets again.
C16_FailedMove ==
    [][last'.op = "tick" =>
         /\ \A h \in last'.failed :
               /\ h \notin MovedInStep
               /\ EventsFor(h) = {}
               /\ h \in DOMAIN recently_moved' =>
                     h \in DOMAIN recently_moved /\ recently_moved'[h] = recently_moved[h]
               /\ AttemptsFor(h) = 1
         /\ stats'.total_moves = stats.total_moves + Cardinality(MovedInStep)
         /\ ~last'.raised => last'.ret = Cardinality(MovedInStep)]_vars

-----------------------------------------------------------------------------
(* check_and_enforce while the topology changes *)

\* GetMonitorInfoW fails for the primary monitor: the enumeration reports the
\* second monitor only, and the merge adds DISPLAY1 as a non-primary clone.
OsNoPrimary == [enum |-> <<MonSecond>>, devices |-> <<D1, D2>>, devices_ok |-> TRUE]

\* EnumDisplayMonitors reports nothing: there is no monitor to clone either.
OsEmpty == [enum |-> <<>>, devices |-> <<D1, D2>>, devices_ok |-> TRUE]

\* The clock of the topology specifications runs in steps of half the TTL of
\* the cache, up to MaxCacheTime.
MaxCacheTime == 10000

CacheSteps == {2500}

\* The OS reports another topology from now on.
TopologyChanges(o) ==
    /\ o # os
    /\ os' = o
    /\ last' = Idle
    /\ UNCHANGED <<enabled, protected_device_names, primary_device, whitelist, custom_whitelist, stats,
                   recently_moved, was_dragging, deferred_hwnds, monitor_cache, now,
                   win, rect, moved_at>>

\* Time passes, seconds of it.
Sleep(d) ==
    /\ now + d <= MaxCacheTime
    /\ now' = now + d
    /\ last' = Idle
    /\ UNCHANGED <<enabled, protected_device_names, primary_device, whitelist, custom_whitelist, stats,
                   recently_moved, was_dragging, deferred_hwnds, monitor_cache,
                   os, win, rect, moved_at>>

DegradedTopologies == {OsExtended, OsNoPrimary, OsEmpty}

DegradedInit ==
    InitIn({Scenario(o, {D2, D3}, None) : o \in DegradedTopologies},
           {Desktop(WinNotepad, WinObs)})

DegradedNext ==
    \/ \E drag \in BOOLEAN : Tick(drag, NoFaults)
    \/ \E o \in DegradedTopologies : TopologyChanges(o)
    \/ \E h \in Hwnds : UserMovesWindow(h, RectOnSecond)
    \/ \E d \in CacheSteps : Sleep(d)

DegradedSpec == DegradedInit /\ [][DegradedNext]_vars

\* The snapshot `monitors` is not empty and has no monitor with is_primary.
NoPrimaryIn(monitors) ==
    monitors # <<>> /\ \A i \in DOMAIN monitors : ~monitors[i].is_primary

\* Every move attempt of the step failed.
EveryAttemptFailed ==
    \A i \in DOMAIN last'.attempts : last'.attempts[i] \in last'.failed

C18_RetryAfterEmpty ==
    [][last'.op = "tick" /\ enabled /\ monitor_cache.has /\ monitor_cache.monitors = <<>>
        => /\ monitor_cache'.monitors = EnumerateMonitors(os)
           /\ monitor_cache'.timestamp = now]_vars

-----------------------------------------------------------------------------
(* monitor_info.py: the topology cache and set_primary_monitor *)

\* get_monitors(), called directly.
GetMonitors ==
    /\ monitor_cache' = CacheAfterGet(monitor_cache, now, os)
    /\ last' = [Idle EXCEPT !.op = "get_monitors"]
    /\ UNCHANGED <<enabled, protected_device_names, primary_device, whitelist, custom_whitelist, stats,
                   recently_moved, was_dragging, deferred_hwnds, now, os, win, rect,
                   moved_at>>

\* The device name of an optional monitor, None when there is none.
DeviceOf(found) == IF found = <<>> THEN None ELSE found[1].device_name

\* get_primary_monitor(), called directly.
GetPrimaryMonitor ==
    \E cache \in {CacheAfterGet(monitor_cache, now, os)} :
       /\ monitor_cache' = cache
       /\ last' = [Idle EXCEPT !.op = "get_primary",
                               !.device = DeviceOf(get_primary_monitor(cache.monitors))]
       /\ UNCHANGED <<enabled, protected_device_names, primary_device, whitelist, custom_whitelist,
                      stats, recently_moved, was_dragging, deferred_hwnds, now, os,
                      win, rect, moved_at>>

Width(m) == m.rc_monitor[3] - m.rc_monitor[1]
Height(m) == m.rc_monitor[4] - m.rc_monitor[2]

\* The widths of the monitors before index i other than device_name.
RECURSIVE OffsetBefore(_, _, _)
OffsetBefore(monitors, i, device_name) ==
    IF i <= 1 THEN 0
    ELSE OffsetBefore(monitors, i - 1, device_name)
         + (IF monitors[i - 1].device_name # device_name THEN Width(monitors[i - 1]) ELSE 0)

\* XOffset without the widths of the monitors in between: every other
\* monitor directly right of the target.
XOffset_NoSum(monitors, i, device_name) ==
    Width(monitors[FirstNamed(monitors, device_name, 1)])

\* The x position set_primary_monitor gives the i-th monitor of the snapshot,
\* which is not the target: the target's width plus the widths of the other
\* monitors before it.
XOffset(monitors, i, device_name) ==
    Width(monitors[FirstNamed(monitors, device_name, 1)])
    + OffsetBefore(monitors, i, device_name)

\* The rectangle of width w and height h at (x, 0), and its work area: the
\* primary monitor carries the taskbar.
RectAt(x, w, h) == <<x, 0, x + w, h>>

WorkAt(x, w, h, prim, taskbar) == <<x, 0, x + w, IF prim THEN h - taskbar ELSE h>>

\* What the OS reports after the ChangeDisplaySettingsExW calls of
\* set_primary_monitor(device_name), made against the snapshot `monitors`.
\* accepted: the call that makes the target primary at (0, 0) took effect;
\* placed: the calls that position the other monitors of the snapshot did.
WithPrimary(o, monitors, device_name, accepted, placed) ==
    LET old == get_primary_monitor(o.enum)
        taskbar == IF old = <<>> THEN 0 ELSE old[1].rc_monitor[4] - old[1].rc_work[4]
        target == monitors[FirstNamed(monitors, device_name, 1)]
    IN [o EXCEPT !.enum =
          [j \in DOMAIN o.enum |->
             LET m == o.enum[j]
                 i == FirstNamed(monitors, m.device_name, 1)
                 prim == IF accepted THEN m.device_name = device_name ELSE m.is_primary
             IN IF m.device_name = device_name
                THEN IF accepted
                     THEN Mon(device_name, TRUE, RectAt(0, Width(target), Height(target)),
                              WorkAt(0, Width(target), Height(target), TRUE, taskbar))
                     ELSE m
                ELSE IF placed /\ i # 0
                THEN LET x == XOffset(monitors, i, device_name)
                     IN Mon(m.device_name, prim,
                            RectAt(x, Width(monitors[i]), Height(monitors[i])),
                            WorkAt(x, Width(monitors[i]), Height(monitors[i]), prim, taskbar))
                ELSE [m EXCEPT !.is_primary = prim]]]

\* set_primary_monitor(device_name). The cache is read, filled when it is not
\* fresh, and not written otherwise. The function returns False before any
\* OS call when the snapshot lacks the target or a primary; otherwise it
\* makes all its calls and returns whether the first one was accepted. An OS
\* that accepts the primary change accepts the placements that follow it; one
\* that rejects the primary change may still accept them.
SetPrimaryMonitor(device_name, accepted, placed) ==
    \E cache \in {CacheAfterGet(monitor_cache, now, os)} :
       LET target_monitor == get_monitor_by_device_name(cache.monitors, device_name)
           primary_monitor == get_primary_monitor(cache.monitors)
           called == target_monitor # <<>> /\ primary_monitor # <<>>
       IN /\ accepted => placed /\ FirstNamed(os.enum, device_name, 1) # 0
          /\ monitor_cache' = cache
          /\ os' = IF called
                   THEN WithPrimary(os, cache.monitors, device_name, accepted, placed)
                   ELSE os
          /\ last' = [Idle EXCEPT !.op = "set_primary", !.device = device_name,
                                  !.ok = called /\ accepted]
          /\ UNCHANGED <<enabled, protected_device_names, primary_device, whitelist, custom_whitelist,
                         stats, recently_moved, was_dragging, deferred_hwnds, now,
                         win, rect, moved_at>>

CacheTopologies == {OsExtended, OsSingle, OsNoPrimary, OsEmpty}

CacheInit ==
    InitIn({Scenario(o, {D2, D3}, None) : o \in CacheTopologies},
           {Desktop(WinNotepad, WinObs)})

CacheNext ==
    \/ GetMonitors
    \/ GetPrimaryMonitor
    \/ \E device_name \in {D1, D2, D3}, accepted \in BOOLEAN, placed \in BOOLEAN :
          SetPrimaryMonitor(device_name, accepted, placed)
    \/ \E o \in CacheTopologies : TopologyChanges(o)
    \/ \E d \in CacheSteps : Sleep(d)

CacheSpec == CacheInit /\ [][CacheNext]_vars

\* The step calls get_monitors().
CallsGetMonitors == last'.op \in {"get_monitors", "get_primary", "set_primary"}

\* C19: get_monitors returns the cached snapshot, without querying the OS,
\* exactly when there is one and it is younger than 5 s; otherwise it
\* enumerates afresh and stores the result with the current time; the
\* snapshot it returns is never 5 s old or older.
C19_TopologyCache ==
    [][CallsGetMonitors =>
         /\ IF monitor_cache.has /\ now - monitor_cache.timestamp < 5000
            THEN monitor_cache' = monitor_cache
            ELSE monitor_cache' = [has |-> TRUE, monitors |-> EnumerateMonitors(os),
                                   timestamp |-> now]
         /\ now - monitor_cache'.timestamp < 5000]_vars

\* C19 witness: get_monitors returned a snapshot taken 2.5 s ago although the
\* OS reports another topology by now.
C19_Witness ==
    /\ last.op = "get_monitors"
    /\ monitor_cache.has /\ now - monitor_cache.timestamp = 2500
    /\ monitor_cache.monitors # EnumerateMonitors(os)

\* C20: the call that follows a successful set_primary_monitor(device)
\* enumerates afresh, and get_primary_monitor then reports that device.
C20_SetPrimaryInvalidates ==
    [][last.op = "set_primary" /\ last.ok /\ CallsGetMonitors
        => /\ monitor_cache'.monitors = EnumerateMonitors(os)
           /\ last'.op = "get_primary" => last'.device = last.device]_vars

\* C21: a call of set_primary_monitor that returns False has changed no
\* display's primary flag and no display's position.
C21_FailureCommitsNothing ==
    [][last'.op = "set_primary" /\ ~last'.ok => os' = os]_vars

-----------------------------------------------------------------------------
(* set_primary_monitor with three displays of different sizes *)

MonThird == Mon(D3, FALSE, <<3840, 0, 5120, 1024>>, <<3840, 0, 5120, 1024>>)

OsTriple ==
    [enum |-> <<MonPrimary, MonSecond, MonThird>>, devices |-> <<D1, D2, D3>>,
     devices_ok |-> TRUE]

LayoutInit ==
    InitIn({Scenario(o, {D2, D3}, None) : o \in {OsTriple, OsExtended}},
           {Desktop(WinNotepad, WinObs)})

LayoutNext ==
    \/ GetMonitors
    \/ \E device_name \in {D1, D2, D3}, accepted \in BOOLEAN, placed \in BOOLEAN :
          SetPrimaryMonitor(device_name, accepted, placed)
    \/ \E d \in CacheSteps : Sleep(d)

LayoutSpec == LayoutInit /\ [][LayoutNext]_vars

\* The sum of the widths of the monitors of the snapshot before index i that
\* are not device_name.
RECURSIVE WidthsOfOthersBefore(_, _, _)
WidthsOfOthersBefore(monitors, i, device_name) ==
    IF i = 1 THEN 0
    ELSE (IF monitors[i - 1].device_name = device_name THEN 0
          ELSE monitors[i - 1].rc_monitor[3] - monitors[i - 1].rc_monitor[1])
         + WidthsOfOthersBefore(monitors, i - 1, device_name)

\* The two rectangles share no area.
Disjoint(a, b) == a[3] <= b[1] \/ b[3] <= a[1] \/ a[4] <= b[2] \/ b[4] <= a[2]

-----------------------------------------------------------------------------
(* get_monitors: the shape of a fresh snapshot *)

\* Two outputs show the primary's picture: one monitor, two attached devices.
OsCloned ==
    [enum |-> <<MonPrimary>>, devices |-> <<D1, D2>>, devices_ok |-> TRUE]

\* An extended desktop with a third device that has no monitor of its own.
OsExtendedClone ==
    [enum |-> <<MonPrimary, MonSecond>>, devices |-> <<D1, D2, D3>>,
     devices_ok |-> TRUE]

\* The secondary is enumerated before the primary; a third device is cloned.
OsPrimaryLast ==
    [enum |-> <<MonSecond, MonPrimary>>, devices |-> <<D2, D1, D3>>,
     devices_ok |-> TRUE]

\* GetMonitorInfoW fails for the primary; the other two are enumerated.
OsTwoNoPrimary ==
    [enum |-> <<MonSecond, MonThird>>, devices |-> <<D1, D2, D3>>,
     devices_ok |-> TRUE]

SnapshotTopologies ==
    {OsExtended, OsSingle, OsTriple, OsCloned, OsExtendedClone, OsPrimaryLast,
     OsNoPrimary, OsTwoNoPrimary, OsEmpty, OsSecondOnly}

SnapshotInit ==
    InitIn({Scenario(o, {D2, D3}, None) : o \in SnapshotTopologies},
           {Desktop(WinNotepad, WinObs)})

SnapshotNext ==
    \/ GetMonitors
    \/ \E o \in SnapshotTopologies : TopologyChanges(o)
    \/ \E d \in CacheSteps : Sleep(d)

SnapshotSpec == SnapshotInit /\ [][SnapshotNext]_vars

\* The step is a call of get_monitors() that enumerates afresh.
FreshEnumeration ==
    /\ last'.op = "get_monitors"
    /\ ~(monitor_cache.has /\ now - monitor_cache.timestamp < 5000)

\* The device names of the monitors EnumDisplayMonitors reports.
EnumeratedNames(o) == {o.enum[j].device_name : j \in DOMAIN o.enum}

\* The device identifiers of the list are pairwise distinct.
DistinctDevices(monitors) ==
    \A i, j \in DOMAIN monitors :
       monitors[i].device_name = monitors[j].device_name => i = j

\* The number of monitors of the list flagged as primary.
PrimaryCount(monitors) == Cardinality({i \in DOMAIN monitors : monitors[i].is_primary})

-----------------------------------------------------------------------------
(* monitor_info.py: is_device_clone and get_monitor_groups *)

\* An active path of the display configuration: the adapter's LUID, the
\* source and the target it connects.
Path(low, high, source, target) ==
    [adapter_low |-> low, adapter_high |-> high, source |-> source, target |-> target]

PathChoices == {Path(1, 0, 0, 0), Path(1, 0, 0, 1), Path(1, 0, 1, 2)}

\* The active paths QueryDisplayConfig can report, at most MaxPaths of them.
MaxPaths == 3

PathConfigs == UNION {[1..n -> PathChoices] : n \in 0..MaxPaths}

\* What the two display-configuration calls return: 0 is success.
ERROR_SUCCESS == 0
ERROR_INVALID_PARAMETER == 87

QueryResults ==
    {[sizes |-> ERROR_SUCCESS, query |-> ERROR_SUCCESS],
     [sizes |-> ERROR_INVALID_PARAMETER, query |-> ERROR_SUCCESS],
     [sizes |-> ERROR_SUCCESS, query |-> ERROR_INVALID_PARAMETER]}

\* The number of modes reported with the paths: one per target and one per
\* source in use.
ModeCount(paths) ==
    Len(paths)
    + Cardinality({<<paths[i].adapter_low, paths[i].adapter_high, paths[i].source>> :
                      i \in DOMAIN paths})

\* The comparison of is_device_clone that also asks for the same target.
SameSource_AndTarget(path, other_path) ==
    /\ path.adapter_low = other_path.adapter_low
    /\ path.source = other_path.source
    /\ path.target = other_path.target

\* The comparison is_device_clone makes between two paths.
SameSource(path, other_path) ==
    /\ path.adapter_low = other_path.adapter_low
    /\ path.source = other_path.source

\* is_device_clone(device_name) as <<is_clone, original>>; the device name
\* takes no part in the result.
is_device_clone(device_name, paths, results) ==
    IF results.sizes # 0 THEN <<FALSE, None>>
    ELSE IF Len(paths) = 0 \/ ModeCount(paths) = 0 THEN <<FALSE, None>>
    ELSE IF results.query # 0 THEN <<FALSE, None>>
    ELSE IF \E i, j \in DOMAIN paths : i # j /\ SameSource(paths[i], paths[j])
    THEN <<TRUE, None>>
    ELSE <<FALSE, None>>

\* get_primary_device_name() on a snapshot.
get_primary_device_name(monitors) ==
    IF FirstPrimary(monitors, 1) = 0 THEN None
    ELSE monitors[FirstPrimary(monitors, 1)].device_name

\* get_monitor_groups() on a snapshot.
get_monitor_groups(monitors, paths, results) ==
    [i \in DOMAIN monitors |->
        [device_names |-> IF monitors[i].device_name # "" THEN <<monitors[i].device_name>>
                          ELSE <<>>,
         is_primary |-> monitors[i].device_name = get_primary_device_name(monitors),
         is_combined |-> FALSE,
         is_clone |-> is_device_clone(monitors[i].device_name, paths, results)[1],
         clone_of |-> is_device_clone(monitors[i].device_name, paths, results)[2],
         bounds |-> monitors[i].rc_monitor]]

\* The record of a call that looked at the display configuration.
CloneCall(op, device_name, paths, results, found, groups) ==
    [paths |-> paths, results |-> results, clone_of |-> found[2], groups |-> groups]
    @@ [Idle EXCEPT !.op = op, !.device = device_name, !.ok = found[1]]

\* is_device_clone(device_name), called directly.
IsDeviceClone(device_name, paths, results) ==
    /\ last' = CloneCall("is_device_clone", device_name, paths, results,
                         is_device_clone(device_name, paths, results), <<>>)
    /\ UNCHANGED <<enabled, protected_device_names, primary_device, whitelist, custom_whitelist, stats,
                   recently_moved, was_dragging, deferred_hwnds, monitor_cache, now,
                   os, win, rect, moved_at>>

\* get_monitor_groups(), called directly.
GetMonitorGroups(paths, results) ==
    \E cache \in {CacheAfterGet(monitor_cache, now, os)} :
       /\ monitor_cache' = cache
       /\ last' = CloneCall("get_monitor_groups", None, paths, results, <<FALSE, None>>,
                            get_monitor_groups(cache.monitors, paths, results))
       /\ UNCHANGED <<enabled, protected_device_names, primary_device, whitelist, custom_whitelist,
                      stats, recently_moved, was_dragging, deferred_hwnds, now, os,
                      win, rect, moved_at>>

CloneInit ==
    /\ InitIn({Scenario(o, {D2, D3}, None) : o \in {OsCloned, OsExtended}},
              {Desktop(WinNotepad, WinObs)})
    /\ rect = [h \in Hwnds |-> RectOnPrimary]

CloneNext ==
    \/ \E device_name \in {D1, D2}, paths \in PathConfigs, results \in QueryResults :
          IsDeviceClone(device_name, paths, results)
    \/ \E paths \in PathConfigs, results \in QueryResults :
          GetMonitorGroups(paths, results)

CloneSpec == CloneInit /\ [][CloneNext]_vars

\* Two of the paths share the adapter and the source and differ in the target.
HasClonePair(paths) ==
    \E i, j \in DOMAIN paths :
       /\ paths[i].adapter_low = paths[j].adapter_low
       /\ paths[i].adapter_high = paths[j].adapter_high
       /\ paths[i].source = paths[j].source
       /\ paths[i].target # paths[j].target

\* A call of the given operation that read the active paths.
ReadPaths(op) ==
    /\ last.op = op
    /\ last.results = [sizes |-> 0, query |-> 0]

\* C25: when two of the active paths read share adapter and source and differ
\* in the target, is_device_clone answers (True, None) for the device it is
\* asked about, whichever it is, and every group of get_monitor_groups, so
\* the groups of both devices, has is_clone = True.
C25_CloneDetection ==
    /\ ReadPaths("is_device_clone") /\ HasClonePair(last.paths)
          => last.ok /\ last.clone_of = None
    /\ ReadPaths("get_monitor_groups") /\ HasClonePair(last.paths)
          => \A i \in DOMAIN last.groups :
                last.groups[i].is_clone /\ last.groups[i].clone_of = None

\* C25 witness: with the clone pair in first and third place of three paths,
\* the groups of DISPLAY1 and of its clone DISPLAY2 are both flagged.
C25_Witness ==
    /\ ReadPaths("get_monitor_groups")
    /\ last.paths = <<Path(1, 0, 0, 0), Path(1, 0, 1, 2), Path(1, 0, 0, 1)>>
    /\ Len(last.groups) = 2
    /\ last.groups[1].device_names = <<D1>> /\ last.groups[1].is_clone
    /\ last.groups[2].device_names = <<D2>> /\ last.groups[2].is_clone

-----------------------------------------------------------------------------
(* The monitor that owns a window *)

\* The monitors of the snapshot on which is_window_on_monitor puts rectangle r.
OwningMonitors(monitors, r) ==
    {i \in DOMAIN monitors : is_window_on_monitor(r, monitors[i])}

\* No two monitors of the snapshot share any area.
NonOverlapping(monitors) ==
    \A i, j \in DOMAIN monitors :
       i # j => Disjoint(monitors[i].rc_monitor, monitors[j].rc_monitor)

\* C26: in a snapshot of monitors that do not overlap, the centre-point test
\* puts every window on at most one monitor, also a window whose centre lies
\* on the edge two monitors share.
C26_SingleOwningMonitor ==
    monitor_cache.has /\ NonOverlapping(monitor_cache.monitors) =>
       \A h \in Hwnds : Cardinality(OwningMonitors(monitor_cache.monitors, rect[h])) <= 1

-----------------------------------------------------------------------------
(* whitelist.py: load() and is_whitelisted() *)

\* What load() can find at config_path: no file, a file that cannot be read
\* as JSON, or a configuration with or without a "whitelist" list and with
\* a "custom_whitelist" list (empty when the key is absent).
ConfigFile(state, has_key, entries, custom) ==
    [state |-> state, has_key |-> has_key, whitelist |-> entries,
     custom_whitelist |-> custom]

FileEntries == {"zoom.exe", "NOTEPAD.EXE", "Taskmgr.exe"}

ConfigFiles ==
    {ConfigFile("missing", FALSE, {}, {}), ConfigFile("corrupt", FALSE, {}, {}),
     ConfigFile("ok", FALSE, {}, {})}
    \cup {ConfigFile("ok", TRUE, entries, {}) : entries \in SUBSET FileEntries}

\* Whitelist.load(): the entries of the file are taken as they are written.
WhitelistLoad(file) ==
    /\ whitelist' = IF file.state = "ok" /\ file.has_key
                    THEN file.whitelist \cup DEFAULT_WHITELIST
                    ELSE DEFAULT_WHITELIST
    /\ custom_whitelist' = IF file.state = "ok" THEN file.custom_whitelist ELSE {}
    /\ last' = [Idle EXCEPT !.op = "load"]
    /\ UNCHANGED <<enabled, protected_device_names, primary_device, stats,
                   recently_moved, was_dragging, deferred_hwnds, monitor_cache, now,
                   os, win, rect, moved_at>>

\* Whitelist.is_whitelisted(process_name), called directly.
IsWhitelisted(process_name) ==
    /\ last' = [Idle EXCEPT !.op = "is_whitelisted", !.process_name = process_name,
                            !.ok = is_whitelisted(whitelist, process_name)]
    /\ UNCHANGED <<enabled, protected_device_names, primary_device, whitelist, custom_whitelist, stats,
                   recently_moved, was_dragging, deferred_hwnds, monitor_cache, now,
                   os, win, rect, moved_at>>

\* The process names asked about and the names added and removed.
AskedNames == {"zoom.exe", "Zoom.exe", "notepad.exe", "POWERPNT.EXE", "Taskmgr.exe", ""}
EditedNames == {"notepad.exe", "Zoom.exe"}

WhitelistInit ==
    /\ InitIn({Scenario(OsExtended, {D2, D3}, None)}, {Desktop(WinNotepad, WinObs)})
    /\ rect = [h \in Hwnds |-> RectOnPrimary]

WhitelistNext ==
    \/ \E file \in ConfigFiles : WhitelistLoad(file)
    \/ \E n \in EditedNames : WhitelistAdd(n)
    \/ \E n \in EditedNames : WhitelistRemove(n)
    \/ \E n \in AskedNames : IsWhitelisted(n)

WhitelistSpec == WhitelistInit /\ [][WhitelistNext]_vars

\* The two names are equal when letter case is ignored.
EqualIgnoringCase(a, b) == Upper(a) = Upper(b)

\* C27: is_whitelisted(p) is True exactly when p equals, ignoring letter case,
\* some entry of the allow-list, whether the entry is a default, was added or
\* was loaded from the configuration file.
C27_CaseInsensitiveMatch ==
    last.op = "is_whitelisted" =>
       (last.ok <=> \E e \in whitelist : EqualIgnoringCase(last.process_name, e))

-----------------------------------------------------------------------------
(* main.py: load_config, _migrate_config_if_needed, initialize_monitoring *)

\* The largest monitor index of a legacy configuration.
MaxIndex == 4

\* The integer idx as an element of the protected list handed to the engine:
\* a value that equals no device name.
IntEntry(idx) ==
    CASE idx = 1 -> "<int 1>"
      [] idx = 2 -> "<int 2>"
      [] idx = 3 -> "<int 3>"
      [] idx = 4 -> "<int 4>"
      [] OTHER -> "<int>"

IntEntries == {IntEntry(idx) : idx \in 1..MaxIndex + 1}

\* A "protected_monitors" list: of 1-based indices (legacy) or of device names.
Indices(seq) == [kind |-> "indices", indices |-> seq, names |-> <<>>]
Names(seq) == [kind |-> "names", indices |-> <<>>, names |-> seq]

\* _get_default_config()["protected_monitors"].
DefaultProtected == Indices(<<2, 3>>)

\* What load_config can find: no file, an unreadable file, or a configuration.
AppConfig(state, has_key, protected, enabled_key) ==
    [state |-> state, has_key |-> has_key, protected |-> protected,
     protection_enabled |-> enabled_key]

AppConfigs ==
    {AppConfig("missing", FALSE, Names(<<>>), TRUE),
     AppConfig("corrupt", FALSE, Names(<<>>), TRUE),
     AppConfig("ok", FALSE, Names(<<>>), TRUE)}
    \cup {AppConfig("ok", TRUE, p, e) :
            p \in {Indices(<<2, 3>>), Indices(<<1>>), Indices(<<3>>),
                   Indices(<<MaxIndex, 2>>), Names(<<>>), Names(<<D2>>),
                   Names(<<D2, D3>>)},
            e \in BOOLEAN}

\* self.config["protected_monitors"] after load_config read the file, None
\* when the key is absent.
LoadedProtected(file) ==
    IF file.state # "ok" THEN <<DefaultProtected>>
    ELSE IF file.has_key THEN <<file.protected>>
    ELSE <<>>

\* The device names of the indices that name a monitor of the snapshot.
MigratedNames(indices, monitors) ==
    LET valid == SelectSeq(indices, LAMBDA idx : 0 < idx /\ idx <= Len(monitors))
    IN [i \in DOMAIN valid |-> monitors[valid[i]].device_name]

\* The list is one that _migrate_config_if_needed looks at: a non-empty list
\* whose first element is an integer.
IsLegacy(loaded) ==
    loaded # <<>> /\ loaded[1].kind = "indices" /\ loaded[1].indices # <<>>

\* _migrate_config_if_needed on the loaded list and the snapshot.
_migrate_config_if_needed(loaded, monitors) ==
    IF IsLegacy(loaded) /\ MigratedNames(loaded[1].indices, monitors) # <<>>
    THEN <<Names(MigratedNames(loaded[1].indices, monitors))>>
    ELSE loaded

\* The elements of the list that initialize_monitoring hands to the engine.
ProtectedDevices(loaded) ==
    IF loaded = <<>> THEN {D2, D3}
    ELSE IF loaded[1].kind = "names"
    THEN {loaded[1].names[i] : i \in DOMAIN loaded[1].names}
    ELSE {IntEntry(loaded[1].indices[i]) : i \in DOMAIN loaded[1].indices}

\* The application starts: load_config with its migration, then
\* initialize_monitoring on a new engine.
Startup(file) ==
    LET loaded == LoadedProtected(file)
        cache == IF IsLegacy(loaded)
                 THEN CacheAfterGet([has |-> FALSE, monitors |-> <<>>, timestamp |-> 0],
                                    now, os)
                 ELSE [has |-> FALSE, monitors |-> <<>>, timestamp |-> 0]
    IN /\ monitor_cache' = cache
       /\ protected_device_names' =
             ProtectedDevices(_migrate_config_if_needed(loaded, cache.monitors))
       /\ primary_device' = None
       /\ enabled' = IF file.state = "ok" THEN file.protection_enabled ELSE TRUE
       /\ whitelist' = DEFAULT_WHITELIST
       /\ custom_whitelist' = {}
       /\ stats' = [total_moves |-> 0, last_moved_process |-> "", last_moved_title |-> ""]
       /\ recently_moved' = <<>>
       /\ was_dragging' = FALSE
       /\ deferred_hwnds' = {}
       /\ last' = [legacy |-> IsLegacy(loaded)] @@ [Idle EXCEPT !.op = "load_config"]
       /\ UNCHANGED <<now, os, win, rect, moved_at>>

MigrationInit ==
    InitIn({Scenario(o, {D2, D3}, None) : o \in {OsSingle, OsExtended, OsTriple}},
           {Desktop(WinNotepad, WinObs)})

MigrationNext ==
    \/ \E file \in AppConfigs : Startup(file)
    \/ Tick(FALSE, NoFaults)
    \/ \E h \in Hwnds : UserMovesWindow(h, RectOnSecond)
    \/ Advance(MOVE_DEBOUNCE_MS)

MigrationSpec == MigrationInit /\ [][MigrationNext]_vars

\* C28: after a start with a legacy configuration, whose protected monitors
\* are 1-based indices, the protected set of the engine holds device paths
\* only and no integer index.
C28_MigrationLeavesNoIndex ==
    last.op = "load_config" /\ last.legacy =>
       protected_device_names \cap IntEntries = {}

-----------------------------------------------------------------------------
(* The MoveLedger *)

\* The MoveLedger entry of h is new or was refreshed in this step.
LedgerEntryWritten(h) ==
    /\ h \in DOMAIN recently_moved'
    /\ h \notin DOMAIN recently_moved \/ recently_moved'[h] # recently_moved[h]

\* C29: after every tick that passes the fast path no MoveLedger entry is
\* older than the debounce window of 500 ms; and an entry is written only by
\* a tick, for a window that tick has repositioned on the primary work area,
\* with the time of that tick, so that every key is the handle of a window
\* that was moved.
C29_LedgerPruning ==
    [][/\ EnforcingStep =>
             \A h \in DOMAIN recently_moved' : now - recently_moved'[h] <= 500
       /\ \A h \in Hwnds :
             LedgerEntryWritten(h) =>
                /\ EnforcingStep /\ h \in MovedInStep
                /\ recently_moved'[h] = now
                /\ rect'[h][1] = PrimaryWorkArea[1] + 20
                /\ rect'[h][2] = PrimaryWorkArea[2] + 20
       /\ DOMAIN recently_moved' \subseteq DOMAIN moved_at']_vars

\* C29 witness: a tick has pruned the entry of window 101, moved 750 ms
\* before, and kept the entry of window 102, moved 500 ms before.
C29_Witness ==
    /\ last.op = "tick" /\ ~last.fast
    /\ 101 \in DOMAIN moved_at /\ now - moved_at[101] = 750
    /\ 101 \notin DOMAIN recently_moved
    /\ 102 \in DOMAIN recently_moved /\ now - recently_moved[102] = 500

-----------------------------------------------------------------------------
(* Configuration changes and a call of check_and_enforce in progress *)

\* A slot of the GUI thread can start only when no call of check_and_enforce,
\* itself a slot of that thread, is in progress.
GuiThreadIdle_Always == TRUE

GuiThreadIdle == last.op # "ticking"

\* check_and_enforce up to the enumeration: the fast path, the pruning, the
\* drag sample and the drag-end pass. next is the index of the window the
\* enumeration reports next, judged the configurations should_move_window
\* has read so far. The body is Enforce stopped where EnumWindows is called.
TickBegins(drag) ==
    /\ GuiThreadIdle
    /\ \E cache \in {CacheAfterGet(monitor_cache, now, os)} :
       IF ~enabled
       THEN /\ last' = FastPath
            /\ UNCHANGED <<enabled, protected_device_names, primary_device, whitelist, custom_whitelist,
                           stats, recently_moved, was_dragging, deferred_hwnds,
                           monitor_cache, now, os, win, rect, moved_at>>
       ELSE IF ~has_projectors(cache.monitors)
       THEN /\ monitor_cache' = cache
            /\ last' = FastPath
            /\ UNCHANGED <<enabled, protected_device_names, primary_device, whitelist, custom_whitelist,
                           stats, recently_moved, was_dragging, deferred_hwnds,
                           now, os, win, rect, moved_at>>
       ELSE /\ UNCHANGED <<enabled, protected_device_names, primary_device,
                           whitelist, custom_whitelist, now, os, win>>
            /\ \E S \in {Enforce(Config, cache.monitors, drag,
                                 [NoFaults EXCEPT !.enum = TRUE], now)} :
               /\ was_dragging' = drag
               /\ monitor_cache' = cache
               /\ recently_moved' = S.rm
               /\ deferred_hwnds' = S.df
               /\ rect' = S.rect
               /\ stats' = S.stats
               /\ moved_at' = S.mt
               /\ last' = [next |-> 1, judged |-> <<>>]
                          @@ [Idle EXCEPT !.op = "ticking", !.drag = drag,
                                          !.ret = S.moved_count, !.moved_d = S.moved_d]

\* EnumWindows reports the next window to enum_callback, which reads the
\* engine's configuration as it is now.
TickVisits ==
    /\ last.op = "ticking" /\ last.next <= Len(SetToSeq(Hwnds))
    /\ \E h \in {SetToSeq(Hwnds)[last.next]} :
       \E S \in {enum_callback(WorkState, h, Config, monitor_cache.monitors,
                               last.drag, NoFaults, now)} :
          /\ recently_moved' = S.rm
          /\ deferred_hwnds' = S.df
          /\ rect' = S.rect
          /\ stats' = S.stats
          /\ moved_at' = S.mt
          /\ last' = [last EXCEPT !.next = @ + 1, !.judged = Append(@, Config),
                                  !.ret = @ + S.moved_count,
                                  !.moved_e = @ \cup S.moved_e,
                                  !.added = @ \cup S.added,
                                  !.visited = @ \cup {h}]
    /\ UNCHANGED <<enabled, protected_device_names, primary_device, whitelist, custom_whitelist,
                   was_dragging, monitor_cache, now, os, win>>

\* The enumeration is over and check_and_enforce returns.
TickReturns ==
    /\ last.op = "ticking" /\ last.next > Len(SetToSeq(Hwnds))
    /\ last' = [last EXCEPT !.op = "tick"]
    /\ UNCHANGED <<enabled, protected_device_names, primary_device, whitelist, custom_whitelist, stats,
                   recently_moved, was_dragging, deferred_hwnds, monitor_cache, now,
                   os, win, rect, moved_at>>

\* Application.on_settings_changed with the configuration the dialog wrote:
\* set_protected_devices, set_primary_device if there is one, set_enabled.
OnSettingsChanged(protected_devices, primary, protection_enabled) ==
    /\ GuiThreadIdle
    /\ protected_device_names' = protected_devices
    /\ primary_device' = IF primary # None THEN primary ELSE primary_device
    /\ enabled' = protection_enabled
    /\ last' = [Idle EXCEPT !.op = "on_settings_changed"]
    /\ UNCHANGED <<whitelist, custom_whitelist, stats, recently_moved, was_dragging, deferred_hwnds,
                   monitor_cache, now, os, win, rect, moved_at>>

\* Application.toggle_protection.
ToggleProtection ==
    /\ GuiThreadIdle
    /\ enabled' = ~enabled
    /\ last' = [Idle EXCEPT !.op = "toggle_protection"]
    /\ UNCHANGED <<protected_device_names, primary_device, whitelist, custom_whitelist, stats,
                   recently_moved, was_dragging, deferred_hwnds, monitor_cache, now,
                   os, win, rect, moved_at>>

\* Time passes between two calls of check_and_enforce.
TimerWaits(d) == last.op # "ticking" /\ Advance(d)

\* The user puts a window somewhere else, at any moment.
UserMovesDuringTick(h, r) ==
    /\ rect[h] # r
    /\ rect' = [rect EXCEPT ![h] = r]
    /\ last' = IF last.op = "ticking" THEN last ELSE Idle
    /\ UNCHANGED <<enabled, protected_device_names, primary_device, whitelist, custom_whitelist, stats,
                   recently_moved, was_dragging, deferred_hwnds, monitor_cache, now,
                   os, win, moved_at>>

AtomicInit ==
    InitIn({Scenario(o, {D2, D3}, None) : o \in {OsExtended, OsSingle}},
           {Desktop(WinNotepad, WinUnknown)})

AtomicNext ==
    \/ \E drag \in BOOLEAN : TickBegins(drag)
    \/ TickVisits
    \/ TickReturns
    \/ \E protected_devices \in {{D2, D3}, {D2}, {}}, primary \in {None, D1},
          protection_enabled \in BOOLEAN :
          OnSettingsChanged(protected_devices, primary, protection_enabled)
    \/ ToggleProtection
    \/ TimerWaits(MOVE_DEBOUNCE_MS)
    \/ \E h \in Hwnds : UserMovesDuringTick(h, RectOnSecond)

AtomicSpec == AtomicInit /\ [][AtomicNext]_vars

-----------------------------------------------------------------------------
(* monitor_info.py: get_friendly_name_for_device *)

\* An active path as get_friendly_name_for_device sees it: the device the
\* path belongs to, the friendly name DisplayConfigGetDeviceInfo reports for
\* its target ("" when it reports none) and whether that call succeeds.
NamedPath(device_name, friendly, info_ok) ==
    [device_name |-> device_name, friendly |-> friendly, info_ok |-> info_ok]

NamedPathChoices ==
    {NamedPath(D1, "Dell U2722D", TRUE), NamedPath(D2, "EPSON PJ", TRUE),
     NamedPath(D2, "", TRUE)}

NamedPathConfigs == UNION {[1..n -> NamedPathChoices] : n \in 0..MaxPaths}

\* The friendly name of the first path, from i on, whose target name can be
\* read and is not empty.
RECURSIVE FirstFriendly(_, _)
FirstFriendly(paths, i) ==
    IF i > Len(paths) THEN None
    ELSE IF paths[i].info_ok /\ paths[i].friendly # "" THEN paths[i].friendly
    ELSE FirstFriendly(paths, i + 1)

\* get_friendly_name_for_device(device_name). header_ok: the assignment of
\* adapterId.LowPart, an integer, to the header's adapterId, a LUID, is
\* accepted; when it raises the function returns None at the first path.
\* The device name takes no part in the result.
get_friendly_name_for_device(device_name, paths, results, header_ok) ==
    IF results.sizes # 0 THEN None
    ELSE IF results.query # 0 THEN None
    ELSE IF Len(paths) > 0 /\ ~header_ok THEN None
    ELSE FirstFriendly(paths, 1)

\* get_friendly_name_for_device(device_name), called directly.
GetFriendlyName(device_name, paths, results, header_ok) ==
    /\ last' = [paths |-> paths, results |-> results,
                name |-> get_friendly_name_for_device(device_name, paths, results,
                                                      header_ok)]
               @@ [Idle EXCEPT !.op = "get_friendly_name", !.device = device_name]
    /\ UNCHANGED <<enabled, protected_device_names, primary_device, whitelist, custom_whitelist, stats,
                   recently_moved, was_dragging, deferred_hwnds, monitor_cache, now,
                   os, win, rect, moved_at>>

FriendlyInit ==
    /\ InitIn({Scenario(OsExtended, {D2, D3}, None)}, {Desktop(WinNotepad, WinObs)})
    /\ rect = [h \in Hwnds |-> RectOnPrimary]

FriendlyNext ==
    \E device_name \in {D1, D2}, paths \in NamedPathConfigs, results \in QueryResults,
       header_ok \in BOOLEAN :
       GetFriendlyName(device_name, paths, results, header_ok)

FriendlySpec == FriendlyInit /\ [][FriendlyNext]_vars

\* C31: a name that get_friendly_name_for_device returns for a device is the
\* friendly name of a path of that device, not the name of another device's
\* path.
C31_OwnFriendlyName ==
    last.op = "get_friendly_name" /\ last.name # None =>
       \E i \in DOMAIN last.paths :
          /\ last.paths[i].device_name = last.device
          /\ last.paths[i].friendly = last.name

-----------------------------------------------------------------------------
(* Moves and the policy *)

\* C32: every window a tick moves, in the drag-end pass or in the
\* enumeration, has should_move = true in that tick: for the configuration,
\* the snapshot and the rectangle the window has when the tick moves it.
C32_MovedOnlyIfViolating ==
    [][TickStep =>
         \A h \in MovedInStep :
            should_move_window(Config, monitor_cache'.monitors, win[h], rect[h])[1]]_vars

\* Installations in which the primary monitor is protected and not always
\* allowed, or a protected device is a clone with the primary's geometry,
\* beside the plain extended desktop.
ConvergeScenarios ==
    {Scenario(OsExtended, {D2, D3}, None), Scenario(OsExtended, {D1, D2}, None),
     Scenario(OsCloned, {D2}, None), Scenario(OsSingle, {D2, D3}, None)}

ConvergeInit == InitIn(ConvergeScenarios, {Desktop(WinNotepad, WinObs)})

ConvergeNext ==
    \/ \E drag \in BOOLEAN : Tick(drag, NoFaults)
    \/ \E b \in BOOLEAN : SetEnabled(b)
    \/ \E h \in Hwnds, r \in RectChoices : UserMovesWindow(h, r)
    \/ \E d \in ClockSteps : Advance(d)

ConvergeSpec == ConvergeInit /\ [][ConvergeNext]_vars

\* C33: a window of an identifiable process that a tick has moved no longer
\* violates the policy where the move has put it, so that a later tick does
\* not move it again unless somebody repositions it.
C33_Convergence ==
    [][TickStep =>
         \A h \in MovedInStep :
            ~Unresolved(h) =>
               ~should_move_window(Config, monitor_cache'.monitors, win[h], rect'[h])[1]]_vars

------------------------------------------------------------------------------
(* The DeferredSet between ticks, under ticks interleaved with set_enabled *)
(* and changes of the display topology.                                    *)
DeferInit ==
    InitIn({Scenario(OsExtended, {D2, D3}, None)},
           {Desktop(WinNotepad, WinObs), Desktop(WinNotepad, WinNotepad)})

DeferNext ==
    \/ \E drag \in BOOLEAN, fails \in FailChoices : Tick(drag, fails)
    \/ \E b \in BOOLEAN : SetEnabled(b)
    \/ \E o \in {OsExtended, OsSingle} : TopologyChanges(o)
    \/ \E h \in Hwnds : UserMovesWindow(h, RectOnSecond)
    \/ \E d \in ClockSteps : Advance(d)

DeferSpec == DeferInit /\ [][DeferNext]_vars

\* C34: between ticks a non-empty DeferredSet implies that the last recorded
\* drag sample is DRAGGING; and after a tick that passed the fast path,
\* sampled NOT_DRAGGING (a call in which _is_dragging raises has taken no
\* sample) and returned, the DeferredSet is empty.
C34_DeferredImpliesDragging ==
    /\ deferred_hwnds # {} => was_dragging
    /\ last.op = "tick" /\ ~last.fast /\ ~last.drag /\ ~last.raised =>
          deferred_hwnds = {}

\* A tick that sampled NOT_DRAGGING has run the drag-end pass over a
\* DeferredSet that an earlier tick had filled, and has left it empty.
C34_Witness ==
    /\ last.op = "tick" /\ ~last.fast /\ ~last.drag /\ last.drag_end
    /\ ~was_dragging /\ deferred_hwnds = {}
    /\ last.moved_d # {}

------------------------------------------------------------------------------
(* One move per window and tick *)

\* The windows a call of check_and_enforce considers: the DeferredSet it
\* starts with and the windows the enumeration reports.
CandidatesInStep == deferred_hwnds \cup last'.visited

\* C35: a tick moves each window at most once: a DeferredSet member moved by
\* the drag-end pass is not moved again by the enumeration of the same tick,
\* move_to_primary_monitor is called once for a moved window, and the value
\* a tick returns is the number of distinct windows it moved, which does
\* not exceed the number of distinct candidate windows.
C35_OneMovePerTick ==
    [][TickStep =>
         /\ last'.moved_d \cap last'.moved_e = {}
         /\ \A h \in MovedInStep : AttemptsFor(h) = 1
         /\ ~last'.raised => last'.ret = Cardinality(MovedInStep)
         /\ MovedInStep \subseteq CandidatesInStep
         /\ last'.ret <= Cardinality(CandidatesInStep)]_vars

\* The drag-end pass has moved a window that still violates the policy where
\* it was put, and the enumeration of the same tick has skipped it as
\* recently moved.
C35_Witness ==
    /\ last.op = "tick" /\ last.drag_end
    /\ \E h \in last.moved_d \cap last.debounced :
          should_move_window(Config, monitor_cache.monitors, win[h], rect[h])[1]

------------------------------------------------------------------------------
(* The moved window and the primary work area *)

\* The rectangle r lies inside the rectangle area, borders included.
RectInside(r, area) ==
    /\ area[1] <= r[1] /\ r[3] <= area[3]
    /\ area[2] <= r[2] /\ r[4] <= area[4]

\* C36: after a successful move the whole rectangle of the window lies inside
\* the work area of the primary monitor, whatever size the window had.
C36_MovedInsideWorkArea ==
    [][TickStep =>
         \A h \in MovedInStep : RectInside(rect'[h], PrimaryWorkArea)]_vars

------------------------------------------------------------------------------
(* Clone detection for a device that is no clone *)

\* The GDI device a path's source drives: Windows names the sources of an
\* adapter \\.\DISPLAY1, \\.\DISPLAY2, ... in the order of their ids.
SourceDevice(path) ==
    IF path.source = 0 THEN D1 ELSE IF path.source = 1 THEN D2 ELSE D3

\* The device has an active path, and that path shares adapter and source
\* with no other active path.
OwnPathAlone(device_name, paths) ==
    \E i \in DOMAIN paths :
       /\ SourceDevice(paths[i]) = device_name
       /\ \A j \in DOMAIN paths :
             j # i => ~(/\ paths[j].adapter_low = paths[i].adapter_low
                        /\ paths[j].adapter_high = paths[i].adapter_high
                        /\ paths[j].source = paths[i].source)

\* C37: is_device_clone answers is_clone = False for a device whose path
\* shares adapter and source with no other active path, also when two other
\* paths of the configuration are clones of each other.
C37_NoFalsePositive ==
    ReadPaths("is_device_clone") /\ OwnPathAlone(last.device, last.paths) => ~last.ok

------------------------------------------------------------------------------
(* whitelist.py: the allow-list and its custom entries *)

\* Whitelist.clear_custom(): every custom entry is discarded from the
\* allow-list, then the custom entries are cleared.
WhitelistClearCustom ==
    /\ whitelist' = whitelist \ custom_whitelist
    /\ custom_whitelist' = {}
    /\ last' = [Idle EXCEPT !.op = "clear_custom"]
    /\ UNCHANGED <<enabled, protected_device_names, primary_device, stats,
                   recently_moved, was_dragging, deferred_hwnds, monitor_cache, now,
                   os, win, rect, moved_at>>

\* The files load() is given: none, an unreadable one, one without the two
\* keys, and files as save() writes them.
AllowListFiles ==
    {ConfigFile("missing", FALSE, {}, {}), ConfigFile("corrupt", FALSE, {}, {}),
     ConfigFile("ok", FALSE, {}, {}),
     ConfigFile("ok", TRUE, DEFAULT_WHITELIST \cup {"NOTEPAD.EXE"}, {"NOTEPAD.EXE"}),
     ConfigFile("ok", TRUE, DEFAULT_WHITELIST \cup {"ZOOM.EXE"}, {"ZOOM.EXE"})}

\* The names given to add and remove: custom names and a default entry.
AllowListNames == {"notepad.exe", "Zoom.exe", "Taskmgr.exe", "obs64.exe"}

AllowListInit ==
    /\ InitIn({Scenario(OsExtended, {D2, D3}, None)}, {Desktop(WinNotepad, WinObs)})
    /\ rect = [h \in Hwnds |-> RectOnPrimary]

AllowListNext ==
    \/ \E file \in AllowListFiles : WhitelistLoad(file)
    \/ \E n \in AllowListNames : WhitelistAdd(n)
    \/ \E n \in AllowListNames : WhitelistRemove(n)
    \/ WhitelistClearCustom
    \/ \E n \in AllowListNames : IsWhitelisted(n)

AllowListSpec == AllowListInit /\ [][AllowListNext]_vars

\* C38: after any sequence of load, add, remove and clear_custom every
\* default entry is in the allow-list and every custom entry is in the
\* allow-list.
C38_AllowListInvariant ==
    /\ DEFAULT_WHITELIST \subseteq whitelist
    /\ custom_whitelist \subseteq whitelist

====
